---- MODULE Spec2Model ----
(***************************************************************************)
(* quillmark-web: the zip-to-bundle loader (src/src/lib/loaders.ts,        *)
(* src/src/lib/utils.ts), the artifact byte normalisation and the export   *)
(* functions (src/src/lib/exporters.ts), and debounce                      *)
(* (src/src/lib/utils.ts).                                                 *)
(*                                                                         *)
(* A JavaScript string is a sequence of tokens: "/" and "." stand for      *)
(* themselves, every other token is a run of characters holding neither.   *)
(* A JavaScript object tree is a function from key paths (sequences of     *)
(* property names) to nodes; the root object is the empty key path.        *)
(***************************************************************************)
EXTENDS Integers, Sequences, FiniteSets, TLC

VARIABLES
    pc,          \* position of the fromZip call
    zipFile,     \* the kind of value given to fromZip
    unzipErr,    \* the callback's err argument is set
    unzipped,    \* the entries fflate's unzip hands to the callback, in order
    usedPrefix,  \* the callback's pathPrefix
    settles,     \* calls of resolve/reject made by the callback
    outcome,     \* state of the promise returned by fromZip
    errMsg,      \* message of the rejection
    delivered,   \* value the promise resolved with
    normIn,      \* argument of toUint8Array
    normOut,     \* its result
    normOut2,    \* result of toUint8Array applied to normOut
    nextRef,     \* next fresh object identity (0 is the caller's object)
    expPc,       \* position of the export call
    expCall,     \* the export function called and its arguments
    env,         \* which of FileReader and Buffer the environment defines
    engine,      \* what parseMarkdown, getQuillInfo and render answer
    renderCalls, \* the options of every engine.render call made
    result,      \* the local `result` of the export function
    artifactBytes, \* the local `bytes` of the export function
    blob,        \* the local `blob` of the export function
    expOut,      \* settlement of the promise the export function returned
    innerHTML,   \* content of the target element
    objectURLs,  \* the object URLs created, in order
    saved,       \* downloads started by a click on the anchor
    domSteps,    \* the calls downloadBlob made on URL, document and the anchor
    revokeTimers, \* object URLs whose revocation timer is pending
    rendererBuffer, \* present content of the buffer the engine handed out
    now,         \* the clock of window.setTimeout, in milliseconds
    debounced,   \* the wrapper debounce returned and its wait
    timerId,     \* the wrapper's local t (0 is undefined)
    timers,      \* the timeouts set and neither fired nor cleared
    nextTimer,   \* the id the next window.setTimeout returns
    log,         \* the calls of the wrapper and of fn, in order
    preloadPhase, \* position of the playground's preloadAllQuills
    options,     \* the filenames preloadAllQuills read from the select element
    preloading,  \* position of the async callback of each filename
    registerCalls, \* the engine.registerQuill calls made, in order
    quills,      \* the quills the playground's engine has registered
    preloadedQuills, \* the playground's preloadedQuills record
    previews,    \* the toElement calls the playground made on its preview element
    microtasks,  \* the continuations queued behind an await, oldest first
    writes,      \* the assignments made to the preview element, in order
    clicks,      \* the clicks on the playground's download button
    docIn,       \* argument of normalizeParsedDocument
    docOut,      \* its result
    docOut2,     \* result of normalizeParsedDocument applied to docOut
    loads,       \* the fromZip calls in flight together, each with its locals
    trees,       \* the objects the fromZip calls build their trees in
    exports,     \* the exportToBlob calls in flight together
    buffers      \* the byte buffers of the engine and of the Blobs

vars == <<pc, zipFile, unzipErr, unzipped, usedPrefix, settles, outcome, errMsg,
          delivered,
          normIn, normOut, normOut2, nextRef,
          expPc, expCall, env, engine, renderCalls, result, artifactBytes, blob,
          expOut, innerHTML, objectURLs, saved, domSteps, revokeTimers,
          rendererBuffer,
          now, debounced, timerId, timers, nextTimer, log,
          preloadPhase, options, preloading, registerCalls, quills,
          preloadedQuills,
          previews, microtasks, writes, clicks,
          docIn, docOut, docOut2,
          loads, trees, exports, buffers>>

loadVars == <<pc, zipFile, unzipErr, unzipped, usedPrefix, settles, outcome, errMsg,
              delivered>>
normVars == <<normIn, normOut, normOut2, nextRef>>
expVars == <<expPc, expCall, env, engine, renderCalls, result, artifactBytes, blob,
             expOut, innerHTML, objectURLs, saved, domSteps, revokeTimers,
          rendererBuffer>>
debVars == <<now, debounced, timerId, timers, nextTimer, log>>
pageVars == <<preloadPhase, options, preloading, registerCalls, quills,
              preloadedQuills>>
renderVars == <<previews, microtasks, writes, clicks>>
docVars == <<docIn, docOut, docOut2>>
overlapVars == <<loads, trees, exports, buffers>>

----------------------------------------------------------------------------
(* Bounds of the model *)

MaxEntries == 3
MaxBytes == 2

----------------------------------------------------------------------------
(* JavaScript string primitives on token sequences (indexes are 0-based) *)

Includes(s, c) == \E i \in 1..Len(s) : s[i] = c

IndexOf(s, c) ==
    IF Includes(s, c)
    THEN (CHOOSE i \in 1..Len(s) : s[i] = c /\ \A j \in 1..(i-1) : s[j] # c) - 1
    ELSE -1

LastIndexOf(s, c) ==
    IF Includes(s, c)
    THEN (CHOOSE i \in 1..Len(s) : s[i] = c /\ \A j \in (i+1)..Len(s) : s[j] # c) - 1
    ELSE -1

EndsWith(s, c) == Len(s) > 0 /\ s[Len(s)] = c

StartsWith(s, p) == Len(s) >= Len(p) /\ SubSeq(s, 1, Len(p)) = p

Substring(s, from, to) == SubSeq(s, from + 1, to)

Slice(s, from) == SubSeq(s, from + 1, Len(s))

RECURSIVE Split(_, _)
Split(s, c) ==
    IF Includes(s, c)
    THEN <<Substring(s, 0, IndexOf(s, c))>> \o Split(Slice(s, IndexOf(s, c) + 1), c)
    ELSE <<s>>

LowerToken(w) ==
    CASE w = "PNG" -> "png"
      [] w = "Quill" -> "quill"
      [] w = "LICENSE" -> "license"
      [] OTHER -> w

ToLowerCase(s) == [i \in 1..Len(s) |-> LowerToken(s[i])]

----------------------------------------------------------------------------
(* utils.ts *)

BINARY_EXTENSIONS ==
    { <<".", e>> : e \in {"png", "jpg", "jpeg", "gif", "webp", "bmp", "ico",
                          "pdf", "ttf", "otf", "woff", "woff2",
                          "zip", "tar", "gz"} }

detectBinaryFileCaseSensitive(filename) ==
    LET ext == IF Includes(filename, ".")
               THEN Slice(filename, LastIndexOf(filename, "."))
               ELSE <<>>
    IN  ext \in BINARY_EXTENSIONS

detectBinaryFile(filename) ==
    LET ext == IF Includes(filename, ".")
               THEN ToLowerCase(Slice(filename, LastIndexOf(filename, ".")))
               ELSE <<>>
    IN  ext \in BINARY_EXTENSIONS

(* Object trees. *)
ObjectNode == [kind |-> "object", data |-> <<>>]
CONTENTS == <<"contents">>
EmptyObject == (<<>> :> ObjectNode)

IsPrefix(p, q) == Len(p) <= Len(q) /\ SubSeq(q, 1, Len(p)) = p

HasKey(t, at, key) == Append(at, key) \in DOMAIN t

\* root[head] = {}
AssignEmpty(t, here) ==
    LET keep == {q \in DOMAIN t : ~IsPrefix(here, q)}
    IN  [q \in keep \cup {here} |-> IF q = here THEN ObjectNode ELSE t[q]]

\* root[head] = value, where value is the fresh object { contents: c }
AssignEntry(t, here, c) ==
    LET keep == {q \in DOMAIN t : ~IsPrefix(here, q)}
        leaf == Append(here, CONTENTS)
    IN  [q \in keep \cup {here, leaf} |->
            IF q = here THEN ObjectNode ELSE IF q = leaf THEN c ELSE t[q]]

RECURSIVE insertPathAt(_, _, _, _)
insertPathAt(t, at, parts, c) ==
    LET head == Head(parts)
        rest == Tail(parts)
        here == Append(at, head)
    IN  IF Len(rest) = 0
        THEN AssignEntry(t, here, c)
        ELSE insertPathAt(IF HasKey(t, at, head) THEN t ELSE AssignEmpty(t, here),
                          here, rest, c)

insertPath(root, parts, c) == insertPathAt(root, <<>>, parts, c)

----------------------------------------------------------------------------
(* loaders.ts: fromZip *)

\* TextDecoder().decode: UTF-8 with U+FFFD for a malformed byte; one- and
\* two-byte forms, which is what the byte values of the model need.
RECURSIVE TextDecode(_)
TextDecode(b) ==
    IF Len(b) = 0 THEN <<>>
    ELSE IF b[1] < 128 THEN <<b[1]>> \o TextDecode(Tail(b))
    ELSE IF b[1] >= 194 /\ b[1] <= 223 /\ Len(b) >= 2 /\ b[2] >= 128 /\ b[2] <= 191
         THEN <<(b[1] - 192) * 64 + (b[2] - 128)>> \o TextDecode(Tail(Tail(b)))
    ELSE <<65533>> \o TextDecode(Tail(b))

\* Array.from(fileData)
ArrayFrom(b) == [i \in 1..Len(b) |-> b[i]]

TextContents(fileData) == [kind |-> "string", data |-> TextDecode(fileData)]
BinaryContents(fileData) == [kind |-> "array", data |-> ArrayFrom(fileData)]

QUILL_TOML == <<"Quill", ".", "toml">>

Keys(unz) == {unz[i].path : i \in 1..Len(unz)}

hasQuillTomlAtRoot(unz) ==
    \E path \in Keys(unz) : path = QUILL_TOML \/ path = QUILL_TOML \o <<"/">>

topLevelEntries(unz) ==
    { Substring(path, 0, IndexOf(path, "/")) :
        path \in {p \in Keys(unz) : IndexOf(p, "/") > 0} }

pathPrefix(unz) ==
    IF ~hasQuillTomlAtRoot(unz) /\ Cardinality(topLevelEntries(unz)) = 1
    THEN LET topFolder == CHOOSE f \in topLevelEntries(unz) : TRUE
             nestedQuillToml == topFolder \o <<"/">> \o QUILL_TOML
         IN  IF nestedQuillToml \in Keys(unz) THEN topFolder \o <<"/">> ELSE <<>>
    ELSE <<>>

skipEntryKeepMarkers(path, prefix) ==
    Len(prefix) > 0 /\ ~StartsWith(path, prefix)

\* the two `continue` statements of the loop
skipEntry(path, prefix) ==
    \/ EndsWith(path, "/")
    \/ Len(prefix) > 0 /\ ~StartsWith(path, prefix)

relativePathUnstripped(path, prefix) == path

relativePath(path, prefix) ==
    IF Len(prefix) > 0 THEN Slice(path, Len(prefix)) ELSE path

entryContents(path, fileData) ==
    IF detectBinaryFile(path) THEN BinaryContents(fileData) ELSE TextContents(fileData)

processEntry(quillObj, entry, prefix) ==
    IF skipEntry(entry.path, prefix) THEN quillObj
    ELSE insertPath(quillObj, Split(relativePath(entry.path, prefix), "/"),
                    entryContents(entry.path, entry.data))

RECURSIVE processEntries(_, _, _)
processEntries(quillObj, unz, prefix) ==
    IF Len(unz) = 0 THEN quillObj
    ELSE processEntries(processEntry(quillObj, Head(unz), prefix), Tail(unz), prefix)

buildTree(unz) == processEntries(EmptyObject, unz, pathPrefix(unz))

UnzipFailed == <<"Failed to unzip file: ", "invalid zip">>
ManifestMissing ==
    <<"Quill.toml", " not found in zip file. Make sure it exists at the ",
      "root of the archive", ".">>

NoBundle == [files |-> <<>>]
NoMessage == <<>>

----------------------------------------------------------------------------
(* Inputs *)

\* Archive paths: a manifest at the root and in a folder, directory markers,
\* a root-level file, upper- and lower-case binary extensions, a folder whose
\* name has a dot, a folder nested in a folder of the same name, and paths
\* where one entry is a file and another lies beneath it. No segment is
\* named "contents".
Wrapper == "tpl"

PathUniverse ==
    { QUILL_TOML,
      <<Wrapper, "/">> \o QUILL_TOML,
      <<Wrapper, "/">>,
      <<"LICENSE">>,
      <<Wrapper, "/", "logo", ".", "PNG">>,
      <<Wrapper, "/", "logo", ".", "PNG", "/", "glue", ".", "typ">>,
      <<Wrapper, "/", Wrapper, "/", "glue", ".", "typ">>,
      <<"img", ".", "png", "/", "LICENSE">>,
      <<"LICENSE", "/", "logo", ".", "png">>,
      QUILL_TOML \o <<"/", "glue", ".", "typ">>,
      QUILL_TOML \o <<"/">>,
      QUILL_TOML \o <<"/">> \o QUILL_TOML }

DataUniverse == { <<137, 80>>, <<65, 195, 169>> }

EntryUniverse == [path : PathUniverse, data : DataUniverse]

Archives ==
    UNION { { s \in [1..n -> EntryUniverse] :
                \A i, j \in 1..n : i # j => s[i].path # s[j].path } :
            n \in 0..MaxEntries }

----------------------------------------------------------------------------
(* The fromZip call *)

LoadInit ==
    /\ pc = "idle"
    /\ zipFile = "none"
    /\ unzipErr = FALSE
    /\ unzipped = <<>>
    /\ usedPrefix = <<>>
    /\ settles = 0
    /\ outcome = "none"
    /\ errMsg = NoMessage
    /\ delivered = NoBundle

NormIdle ==
    /\ normIn = [kind |-> "none"]
    /\ normOut = [kind |-> "none"]
    /\ normOut2 = [kind |-> "none"]
    /\ nextRef = 1

\* element.innerHTML: literal markup, then decoded text, then literal markup
Html(before, text, after) == [before |-> before, text |-> text, after |-> after]

ExpIdle ==
    /\ expPc = "idle"
    /\ expCall = [op |-> "none"]
    /\ env = [FileReader |-> FALSE, Buffer |-> FALSE]
    /\ engine = [kind |-> "none"]
    /\ renderCalls = <<>>
    /\ result = [kind |-> "none"]
    /\ artifactBytes = [kind |-> "none"]
    /\ blob = [kind |-> "none"]
    /\ expOut = [kind |-> "none"]
    /\ innerHTML = Html(<<"<p>old</p>">>, <<>>, <<>>)
    /\ objectURLs = <<>>
    /\ saved = <<>>
    /\ domSteps = <<>>
    /\ revokeTimers = {}
    /\ rendererBuffer = [held |-> FALSE, data |-> <<>>]

DebIdle ==
    /\ now = 0
    /\ debounced = [made |-> FALSE, arg |-> [given |-> FALSE, ms |-> 0], wait |-> 0]
    /\ timerId = 0
    /\ timers = {}
    /\ nextTimer = 1
    /\ log = <<>>

PageIdle ==
    /\ preloadPhase = "idle"
    /\ options = <<>>
    /\ preloading = <<>>
    /\ registerCalls = <<>>
    /\ quills = {}
    /\ preloadedQuills = {}

RenderIdle ==
    /\ previews = <<>>
    /\ microtasks = <<>>
    /\ writes = <<>>
    /\ clicks = 0

DocIdle ==
    /\ docIn = [kind |-> "none"]
    /\ docOut = [kind |-> "none"]
    /\ docOut2 = [kind |-> "none"]

OverlapIdle ==
    /\ loads = [i \in 1..2 |-> [pc |-> "idle", unzipped |-> <<>>, outcome |-> "none",
                                quillObj |-> 0]]
    /\ trees = [o \in 0..2 |-> EmptyObject]
    /\ exports = [i \in 1..2 |-> [pc |-> "idle", engine |-> [kind |-> "none"],
                                  format |-> "undefined", out |-> [kind |-> "none"]]]
    /\ buffers = [b \in 0..2 |-> <<>>]

Init ==
    /\ LoadInit /\ NormIdle /\ ExpIdle /\ DebIdle /\ PageIdle /\ RenderIdle /\ DocIdle
    /\ OverlapIdle

\* fromZip(zipFile), up to the first suspension point
Call ==
    /\ pc = "idle"
    /\ \E k \in {"ArrayBuffer", "Blob"} :
          /\ zipFile' = k
          /\ pc' = IF k = "ArrayBuffer" THEN "unzip" ELSE "arrayBuffer"
    /\ outcome' = "pending"
    /\ UNCHANGED <<unzipErr, unzipped, usedPrefix, settles, errMsg, delivered>>
    /\ UNCHANGED <<normVars, expVars, debVars, pageVars, renderVars, docVars, overlapVars>>

\* await zipFile.arrayBuffer()
AwaitArrayBuffer ==
    /\ pc = "arrayBuffer"
    /\ pc' = "unzip"
    /\ UNCHANGED <<zipFile, unzipErr, unzipped, usedPrefix, settles, outcome,
                   errMsg, delivered>>
    /\ UNCHANGED <<normVars, expVars, debVars, pageVars, renderVars, docVars, overlapVars>>

\* the unzip callback, called with an error
UnzipError ==
    /\ pc = "unzip"
    /\ unzipErr' = TRUE
    /\ pc' = "done"
    /\ settles' = settles + 1
    /\ outcome' = "rejected"
    /\ errMsg' = UnzipFailed
    /\ UNCHANGED <<zipFile, unzipped, usedPrefix, delivered>>
    /\ UNCHANGED <<normVars, expVars, debVars, pageVars, renderVars, docVars, overlapVars>>

\* the end of the unzip callback: the validation of quillObj and the settlement
Settle(quillObj) ==
    IF ~HasKey(quillObj, <<>>, QUILL_TOML)
    THEN /\ outcome' = "rejected"
         /\ errMsg' = ManifestMissing
         /\ delivered' = delivered
    ELSE /\ outcome' = "resolved"
         /\ errMsg' = errMsg
         /\ delivered' = [files |-> quillObj]

\* the unzip callback, called with the entries of the archive
UnzipCallback ==
    /\ pc = "unzip"
    /\ \E unz \in Archives :
          /\ unzipped' = unz
          /\ usedPrefix' = pathPrefix(unz)
          /\ Settle(buildTree(unz))
    /\ settles' = settles + 1
    /\ pc' = "done"
    /\ UNCHANGED <<zipFile, unzipErr>>
    /\ UNCHANGED <<normVars, expVars, debVars, pageVars, renderVars, docVars, overlapVars>>

Next == Call \/ AwaitArrayBuffer \/ UnzipError \/ UnzipCallback

Spec == Init /\ [][Next]_vars

----------------------------------------------------------------------------
(* exporters.ts: toUint8Array *)

(* JavaScript values. Objects carry an identity (ref); a Uint8Array also
   names the buffer it views. A string is its sequence of code points. *)
Null == [kind |-> "null"]
Undefined == [kind |-> "undefined"]
Uint8ArrayOf(r, buf, d) == [kind |-> "Uint8Array", ref |-> r, buffer |-> buf, data |-> d]
ArrayBufferOf(r, d) == [kind |-> "ArrayBuffer", ref |-> r, data |-> d]
ArrayOf(d) == [kind |-> "Array", data |-> d]
StringOf(d) == [kind |-> "string", data |-> d]
WrapperOf(v) == [kind |-> "object", hasBytes |-> TRUE, bytes |-> v]
PlainObject == [kind |-> "object", hasBytes |-> FALSE]
\* an ArrayBuffer that was given a bytes property
ArrayBufferWithBytes(r, d, v) ==
    [kind |-> "ArrayBuffer", ref |-> r, data |-> d, hasBytes |-> TRUE, bytes |-> v]
NumberValue == [kind |-> "number"]
\* an object whose Symbol.iterator is not callable: Array.from throws on it
BrokenIterable == [kind |-> "brokenIterable"]

Thrown(name, text) == [kind |-> "throw", error |-> name, message |-> text]

\* ToUint8 of the typed-array element conversion
ToInt8(x) == IF x % 256 >= 128 THEN (x % 256) - 256 ELSE x % 256

ToUint8(x) == x % 256

\* new Uint8Array()
emptyUint8Array(fresh) == Uint8ArrayOf(fresh, fresh, <<>>)

copyOfUint8Array(v, fresh) == Uint8ArrayOf(fresh, fresh, v.data)

\* return bytesOrArtifact
sameUint8Array(v, fresh) == v

\* new Uint8Array(arrayBuffer): a view of the same buffer
viewOfArrayBuffer(v, fresh) == Uint8ArrayOf(fresh, v.ref, v.data)

signedFromArray(v, fresh) ==
    Uint8ArrayOf(fresh, fresh, [i \in 1..Len(v.data) |-> ToInt8(v.data[i])])

\* new Uint8Array(array)
uint8ArrayFromArray(v, fresh) ==
    Uint8ArrayOf(fresh, fresh, [i \in 1..Len(v.data) |-> ToUint8(v.data[i])])

IsWhitespace(c) == c \in {9, 10, 11, 12, 13, 32, 160}

IsBase64Char(c) ==
    \/ c >= 65 /\ c <= 90
    \/ c >= 97 /\ c <= 122
    \/ c >= 48 /\ c <= 57
    \/ c = 43
    \/ c = 47

Base64Index(c) ==
    IF c >= 65 /\ c <= 90 THEN c - 65
    ELSE IF c >= 97 /\ c <= 122 THEN c - 71
    ELSE IF c >= 48 /\ c <= 57 THEN c + 4
    ELSE IF c = 43 THEN 62
    ELSE 63

\* s.replace(/\s+/g, '')
removeWhitespace(s) == SelectSeq(s, LAMBDA c : ~IsWhitespace(c))

\* /^[A-Za-z0-9+/]+=*$/.test(s)
matchesBase64Pattern(s) ==
    \E n \in 1..Len(s) :
        /\ \A i \in 1..n : IsBase64Char(s[i])
        /\ \A i \in (n + 1)..Len(s) : s[i] = 61

\* the data characters atob decodes: one or two trailing "=" removed when
\* the length is a multiple of 4
withoutPadding(s) ==
    IF Len(s) % 4 = 0 /\ Len(s) > 0 /\ s[Len(s)] = 61
    THEN IF Len(s) > 1 /\ s[Len(s) - 1] = 61
         THEN SubSeq(s, 1, Len(s) - 2)
         ELSE SubSeq(s, 1, Len(s) - 1)
    ELSE s

atobAccepts(s) ==
    LET d == withoutPadding(s)
    IN  /\ Len(d) % 4 # 1
        /\ \A i \in 1..Len(d) : IsBase64Char(d[i])

RECURSIVE decodeSextets(_)
decodeSextets(d) ==
    IF Len(d) < 2 THEN <<>>
    ELSE LET a == Base64Index(d[1])
             b == Base64Index(d[2])
         IN  IF Len(d) = 2 THEN <<(a * 4) + (b \div 16)>>
             ELSE LET c == Base64Index(d[3])
                  IN  IF Len(d) = 3
                      THEN <<(a * 4) + (b \div 16), ((b % 16) * 16) + (c \div 4)>>
                      ELSE <<(a * 4) + (b \div 16), ((b % 16) * 16) + (c \div 4),
                             ((c % 4) * 64) + Base64Index(d[4])>>
                           \o decodeSextets(SubSeq(d, 5, Len(d)))

\* atob(s): the bytes, one per character of the binary string
atob(s) == decodeSextets(withoutPadding(s))

\* new TextEncoder().encode(s)
RECURSIVE TextEncode(_)
TextEncode(s) ==
    IF Len(s) = 0 THEN <<>>
    ELSE LET c == s[1]
             bytes == IF c < 128 THEN <<c>>
                      ELSE IF c < 2048 THEN <<192 + (c \div 64), 128 + (c % 64)>>
                      ELSE <<224 + (c \div 4096), 128 + ((c \div 64) % 64),
                             128 + (c % 64)>>
         IN  bytes \o TextEncode(Tail(s))

uint8ArrayFromString(v, fresh) ==
    LET compact == removeWhitespace(v.data)
        isBase64 == matchesBase64Pattern(compact) /\ Len(compact) % 4 = 0
    IN  IF isBase64
        THEN IF atobAccepts(compact)
             THEN Uint8ArrayOf(fresh, fresh, atob(compact))
             ELSE Thrown("InvalidCharacterError", "atob")
        ELSE Uint8ArrayOf(fresh, fresh, TextEncode(v.data))

\* the try block: Array.from of a value that is not iterable is []
uint8ArrayFromAnything(v, fresh) ==
    IF v.kind = "brokenIterable"
    THEN Thrown("Error", <<"Unsupported artifact bytes type: ", "[object Object]">>)
    ELSE Uint8ArrayOf(fresh, fresh, <<>>)

bytesInPlainObject(v) == v.kind = "object" /\ v.hasBytes

\* typeof bytesOrArtifact === 'object' && 'bytes' in bytesOrArtifact
bytesIn(v) ==
    /\ v.kind \in {"object", "Uint8Array", "ArrayBuffer", "Array"}
    /\ "hasBytes" \in DOMAIN v
    /\ v.hasBytes

RECURSIVE toUint8Array(_, _)
toUint8Array(bytesOrArtifact, fresh) ==
    IF bytesOrArtifact.kind \in {"null", "undefined"}
    THEN emptyUint8Array(fresh)
    ELSE IF bytesIn(bytesOrArtifact)
    THEN toUint8Array(bytesOrArtifact.bytes, fresh)
    ELSE IF bytesOrArtifact.kind = "Uint8Array"
    THEN sameUint8Array(bytesOrArtifact, fresh)
    ELSE IF bytesOrArtifact.kind = "ArrayBuffer"
    THEN viewOfArrayBuffer(bytesOrArtifact, fresh)
    ELSE IF bytesOrArtifact.kind = "Array"
    THEN uint8ArrayFromArray(bytesOrArtifact, fresh)
    ELSE IF bytesOrArtifact.kind = "string"
    THEN uint8ArrayFromString(bytesOrArtifact, fresh)
    ELSE uint8ArrayFromAnything(bytesOrArtifact, fresh)

(* Inputs of toUint8Array *)
MaxStrLen == 4
MaxDepth == 2

SeqsUpTo(S, n) == UNION { [1..k -> S] : k \in 0..n }

ByteValues == {0, 65, 255}
ElementValues == ByteValues \cup {256, -1}
CharValues == {81, 61, 32, 233, 45}

ByteSequences == SeqsUpTo(ByteValues, MaxBytes)

BareValues ==
    {Null, Undefined, PlainObject, NumberValue, BrokenIterable}
    \cup { Uint8ArrayOf(0, 0, d) : d \in ByteSequences }
    \cup { ArrayBufferOf(0, d) : d \in ByteSequences }
    \cup { ArrayBufferWithBytes(0, <<65>>, v) : v \in {Null, Uint8ArrayOf(0, 0, <<0>>)} }
    \cup { ArrayOf(d) : d \in SeqsUpTo(ElementValues, MaxBytes) }
    \cup { StringOf(d) : d \in SeqsUpTo(CharValues, MaxStrLen) }

RECURSIVE ValuesOfDepth(_)
ValuesOfDepth(n) ==
    IF n = 0 THEN BareValues
    ELSE { WrapperOf(v) : v \in ValuesOfDepth(n - 1) }

ValueUniverse == UNION { ValuesOfDepth(n) : n \in 0..MaxDepth }

NoValue == [kind |-> "none"]

\* toUint8Array(v)
Normalize ==
    /\ normIn = NoValue
    /\ \E v \in ValueUniverse :
          /\ normIn' = v
          /\ normOut' = toUint8Array(v, nextRef)
    /\ nextRef' = IF normOut'.kind = "Uint8Array" /\ normOut'.ref = nextRef
                  THEN nextRef + 1 ELSE nextRef
    /\ UNCHANGED normOut2
    /\ UNCHANGED <<loadVars, expVars, debVars, pageVars, renderVars, docVars, overlapVars>>

\* toUint8Array(toUint8Array(v))
NormalizeAgain ==
    /\ normOut.kind = "Uint8Array"
    /\ normOut2 = NoValue
    /\ normOut2' = toUint8Array(normOut, nextRef)
    /\ nextRef' = IF normOut2'.kind = "Uint8Array" /\ normOut2'.ref = nextRef
                  THEN nextRef + 1 ELSE nextRef
    /\ UNCHANGED <<normIn, normOut>>
    /\ UNCHANGED <<loadVars, expVars, debVars, pageVars, renderVars, docVars, overlapVars>>

NextNorm == Normalize \/ NormalizeAgain

SpecNorm == Init /\ [][NextNorm]_vars

----------------------------------------------------------------------------
(* exporters.ts: extractArtifact, getPreferredPreviewFormat and the export
   functions exportToBlob, exportToDataUrl, preview, downloadDocument *)

\* { main: m }
MainMapping(m) == [kind |-> "object", hasBytes |-> FALSE, hasMain |-> TRUE, main |-> m]
\* { main: m, bytes: b }
MainAndBytes(m, b) ==
    [kind |-> "object", hasBytes |-> TRUE, bytes |-> b, hasMain |-> TRUE, main |-> m]

\* result.artifacts && typeof result.artifacts === 'object' && 'main' in result.artifacts
HasMain(v) == v.kind = "object" /\ "hasMain" \in DOMAIN v /\ v.hasMain

\* array[0]
ElementZero(a) == IF Len(a.data) > 0 THEN a.data[1] ELSE Undefined

candidateIgnoringMain(res) ==
    IF res.artifacts.kind = "Array" THEN ElementZero(res.artifacts)
    ELSE res.artifacts

artifactCandidate(res) ==
    IF res.artifacts.kind = "Array" THEN ElementZero(res.artifacts)
    ELSE IF HasMain(res.artifacts) THEN res.artifacts.main
    ELSE res.artifacts

extractArtifact(res, fresh) == toUint8Array(artifactCandidate(res), fresh)

NoFormat == "undefined"
NoName == "undefined"

\* engine.getQuillInfo(quillName): throws, or answers an info object with or
\* without a supportedFormats array
InfoThrows == [kind |-> "throw"]
InfoWithout == [kind |-> "info", hasFormats |-> FALSE, supportedFormats |-> {}]
InfoOf(fs) == [kind |-> "info", hasFormats |-> TRUE, supportedFormats |-> fs]

preferPdfFirst(info, quillName, userFormat) ==
    IF userFormat # NoFormat THEN userFormat
    ELSE IF quillName # NoName /\ info.kind = "info" /\ info.hasFormats
    THEN IF "pdf" \in info.supportedFormats THEN "pdf"
         ELSE IF "svg" \in info.supportedFormats THEN "svg"
         ELSE IF "txt" \in info.supportedFormats THEN "txt"
         ELSE "svg"
    ELSE "svg"

\* info is what engine.getQuillInfo(quillName) does when it is called
getPreferredPreviewFormat(info, quillName, userFormat) ==
    IF userFormat # NoFormat THEN userFormat
    ELSE IF quillName # NoName /\ info.kind = "info" /\ info.hasFormats
    THEN IF "svg" \in info.supportedFormats THEN "svg"
         ELSE IF "pdf" \in info.supportedFormats THEN "pdf"
         ELSE IF "txt" \in info.supportedFormats THEN "txt"
         ELSE "svg"
    ELSE "svg"

\* options?.format || 'pdf'
formatOrPdf(optFormat) == IF optFormat = NoFormat THEN "pdf" ELSE optFormat

mimeTypeAlwaysPdf(format) == "application/pdf"

mimeType(format) ==
    IF format = "pdf" THEN "application/pdf"
    ELSE IF format = "svg" THEN "image/svg+xml"
    ELSE "text/plain"

defaultFilenameAlwaysPdf(format) == "document.pdf"

defaultFilename(format) ==
    IF format = "pdf" THEN "document.pdf"
    ELSE IF format = "svg" THEN "document.svg"
    ELSE "document.txt"

\* a filename argument: undefined or a string
FilenameOf(t) == [kind |-> "string", text |-> t]

\* outputFilename || defaultFilename
filenameOrDefault(outputFilename, format) ==
    IF outputFilename.kind = "string" /\ outputFilename.text # ""
    THEN outputFilename.text
    ELSE defaultFilename(format)

sliceFromOne(u, fresh) ==
    Uint8ArrayOf(fresh, fresh, IF Len(u.data) = 0 THEN <<>> ELSE Tail(u.data))

\* bytes.slice(): a new Uint8Array over a new buffer
slice(u, fresh) == Uint8ArrayOf(fresh, fresh, u.data)

\* new Blob([part], { type }): the Blob keeps its own copy of the part's bytes
BlobOf(part, type) == [kind |-> "Blob", type |-> type, data |-> part.data]

\* URL.createObjectURL: the n-th URL created
ObjectURL(n) == "blob:" \o ToString(n)

Base64AlphabetUrlSafe(i) ==
    IF i < 26 THEN 65 + i
    ELSE IF i < 52 THEN 97 + (i - 26)
    ELSE IF i < 62 THEN 48 + (i - 52)
    ELSE IF i = 62 THEN 45
    ELSE 95

Base64Alphabet(i) ==
    IF i < 26 THEN 65 + i
    ELSE IF i < 52 THEN 97 + (i - 26)
    ELSE IF i < 62 THEN 48 + (i - 52)
    ELSE IF i = 62 THEN 43
    ELSE 47

\* FileReader.readAsDataURL and Buffer.toString('base64')
RECURSIVE base64(_)
base64(b) ==
    IF Len(b) = 0 THEN <<>>
    ELSE IF Len(b) = 1
    THEN <<Base64Alphabet(b[1] \div 4), Base64Alphabet((b[1] % 4) * 16), 61, 61>>
    ELSE IF Len(b) = 2
    THEN <<Base64Alphabet(b[1] \div 4),
           Base64Alphabet(((b[1] % 4) * 16) + (b[2] \div 16)),
           Base64Alphabet((b[2] % 16) * 4), 61>>
    ELSE <<Base64Alphabet(b[1] \div 4),
           Base64Alphabet(((b[1] % 4) * 16) + (b[2] \div 16)),
           Base64Alphabet(((b[2] % 16) * 4) + (b[3] \div 64)),
           Base64Alphabet(b[3] % 64)>> \o base64(SubSeq(b, 4, Len(b)))

\* `data:${blob.type};base64,${base64}`
DataUrlOf(b) ==
    [kind |-> "string", head |-> <<"data:", b.type, ";base64,">>, data |-> base64(b.data)]

encoderBufferFirst(e) ==
    IF e.Buffer THEN "Buffer" ELSE IF e.FileReader THEN "FileReader" ELSE "none"

\* typeof FileReader !== 'undefined', else typeof Buffer !== 'undefined'
encoder(e) ==
    IF e.FileReader THEN "FileReader" ELSE IF e.Buffer THEN "Buffer" ELSE "none"

EncodingUnavailable ==
    "exportToDataUrl requires either FileReader (browser) or Buffer (Node.js) to be available"

(* The engine: Quillmark.parseMarkdown answers a parsed document or throws,
   engine.render answers a result or throws. A result carries outputFormat
   (the format asked for) when the engine reports it, and no outputFormat
   when it answers { artifacts } alone. *)
Parsed(tag) == [kind |-> "parsed", quillTag |-> tag]
RenderedOf(a, reports) == [kind |-> "rendered", artifacts |-> a, reports |-> reports]

render(eng, format) ==
    IF eng.rendered.kind = "throw" THEN eng.rendered
    ELSE [kind |-> "result",
          artifacts |-> eng.rendered.artifacts,
          outputFormat |-> IF eng.rendered.reports THEN format ELSE NoFormat]

\* parse, render and extract, as exportToBlob and downloadDocument do them
rendering(eng, format) ==
    IF eng.parsed.kind = "throw"
    THEN [calls |-> <<>>, result |-> NoValue, bytes |-> NoValue, thrown |-> eng.parsed]
    ELSE LET res == render(eng, format)
         IN  IF res.kind = "throw"
             THEN [calls |-> <<format>>, result |-> NoValue, bytes |-> NoValue,
                   thrown |-> res]
             ELSE LET b == extractArtifact(res, 1)
                  IN  IF b.kind = "throw"
                      THEN [calls |-> <<format>>, result |-> res, bytes |-> NoValue,
                            thrown |-> b]
                      ELSE [calls |-> <<format>>, result |-> res, bytes |-> b,
                            thrown |-> NoValue]

\* the buffer of the engine that `bytes` views, if it views one
bufferViewed(b) ==
    IF b.kind = "Uint8Array" /\ b.buffer = 0
    THEN [held |-> TRUE, data |-> b.data]
    ELSE [held |-> FALSE, data |-> <<>>]

(* Inputs of the export functions *)
OptionFormats == {NoFormat, "pdf", "svg", "txt", "png"}
Filenames == {Undefined, FilenameOf(""), FilenameOf("report.out")}
Environments == [FileReader : BOOLEAN, Buffer : BOOLEAN]

EngineBytes == { Uint8ArrayOf(0, 0, d) : d \in ByteSequences }
Artifacts == EngineBytes \cup {Undefined, BrokenIterable, StringOf(<<81, 61, 61, 61>>)}
Wrappable == Artifacts \cup {ArrayOf(<<65, 256>>)}
Marked == {WrapperOf(Uint8ArrayOf(0, 0, <<65>>)), WrapperOf(Uint8ArrayOf(0, 0, <<0, 255>>))}

ArtifactCollections ==
    {ArrayOf(<<>>)}
    \cup { ArrayOf(<<WrapperOf(a)>>) : a \in Wrappable }
    \cup { ArrayOf(<<a, b>>) : a \in Marked, b \in Marked }
    \cup { MainMapping(WrapperOf(a)) : a \in Wrappable }
    \cup { MainAndBytes(a, b) : a \in Marked, b \in Marked }
    \cup { WrapperOf(a) : a \in Wrappable }
    \cup Artifacts

RenderThrows == Thrown("Error", "render")
ParseThrows == Thrown("Error", "parseMarkdown")

RenderOutcomes ==
    {RenderThrows} \cup { RenderedOf(a, r) : a \in ArtifactCollections, r \in BOOLEAN }

InfoOutcomes ==
    {InfoThrows, InfoWithout} \cup { InfoOf(fs) : fs \in SUBSET {"svg", "pdf", "txt", "png"} }

\* engines of the calls that never ask getQuillInfo
Engines ==
    {[parsed |-> ParseThrows, info |-> InfoThrows, rendered |-> RenderThrows]}
    \cup { [parsed |-> Parsed("tagged"), info |-> InfoThrows, rendered |-> r] :
             r \in RenderOutcomes }

CallOf(op, format, quillName, filename) ==
    [op |-> op, format |-> format, quillName |-> quillName, filename |-> filename]

\* exportToBlob(engine, markdown, options): it has no suspension point
ExportToBlob ==
    /\ expPc = "idle"
    /\ \E f \in OptionFormats, eng \in Engines :
          LET format == formatOrPdf(f)
              r == rendering(eng, format)
          IN  /\ expCall' = CallOf("exportToBlob", f, NoName, Undefined)
              /\ engine' = eng
              /\ renderCalls' = r.calls
              /\ result' = r.result
              /\ artifactBytes' = r.bytes
              /\ rendererBuffer' = bufferViewed(r.bytes)
              /\ blob' = IF r.thrown = NoValue
                         THEN BlobOf(slice(r.bytes, 2), mimeType(format))
                         ELSE NoValue
              /\ expOut' = IF r.thrown = NoValue THEN blob' ELSE r.thrown
    /\ expPc' = "done"
    /\ UNCHANGED <<env, innerHTML, objectURLs, saved, domSteps, revokeTimers>>
    /\ UNCHANGED <<loadVars, normVars, debVars, pageVars, renderVars, docVars, overlapVars>>

\* exportToDataUrl(engine, markdown, options), up to `await exportToBlob`
ExportToDataUrl ==
    /\ expPc = "idle"
    /\ \E f \in OptionFormats, eng \in Engines, e \in Environments :
          LET format == formatOrPdf(f)
              r == rendering(eng, format)
          IN  /\ expCall' = CallOf("exportToDataUrl", f, NoName, Undefined)
              /\ engine' = eng
              /\ env' = e
              /\ renderCalls' = r.calls
              /\ result' = r.result
              /\ artifactBytes' = r.bytes
              /\ rendererBuffer' = bufferViewed(r.bytes)
              /\ blob' = IF r.thrown = NoValue
                         THEN BlobOf(slice(r.bytes, 2), mimeType(format))
                         ELSE NoValue
              /\ expOut' = r.thrown
              /\ expPc' = IF r.thrown = NoValue THEN "encode" ELSE "done"
    /\ UNCHANGED <<innerHTML, objectURLs, saved, domSteps, revokeTimers>>
    /\ UNCHANGED <<loadVars, normVars, debVars, pageVars, renderVars, docVars, overlapVars>>

\* exportToDataUrl after `await exportToBlob`
ChooseEncoder ==
    /\ expPc = "encode"
    /\ IF encoder(env) = "FileReader"
       THEN expPc' = "reading" /\ UNCHANGED expOut
       ELSE IF encoder(env) = "Buffer"
       THEN expPc' = "done" /\ expOut' = DataUrlOf(blob)
       ELSE expPc' = "done" /\ expOut' = Thrown("Error", EncodingUnavailable)
    /\ UNCHANGED <<expCall, env, engine, renderCalls, result, artifactBytes, blob, innerHTML,
                   objectURLs, saved, domSteps, revokeTimers, rendererBuffer>>
    /\ UNCHANGED <<loadVars, normVars, debVars, pageVars, renderVars, docVars, overlapVars>>

\* reader.onloadend
ReaderLoadEnd ==
    /\ expPc = "reading"
    /\ expPc' = "done"
    /\ expOut' = DataUrlOf(blob)
    /\ UNCHANGED <<expCall, env, engine, renderCalls, result, artifactBytes, blob, innerHTML,
                   objectURLs, saved, domSteps, revokeTimers, rendererBuffer>>
    /\ UNCHANGED <<loadVars, normVars, debVars, pageVars, renderVars, docVars, overlapVars>>

\* reader.onerror
ReaderError ==
    /\ expPc = "reading"
    /\ expPc' = "done"
    /\ expOut' = Thrown("ProgressEvent", "error")
    /\ UNCHANGED <<expCall, env, engine, renderCalls, result, artifactBytes, blob, innerHTML,
                   objectURLs, saved, domSteps, revokeTimers, rendererBuffer>>
    /\ UNCHANGED <<loadVars, normVars, debVars, pageVars, renderVars, docVars, overlapVars>>

\* engines of preview: getQuillInfo is asked only when no format is given and
\* a quill name is known
PreviewEngines(f, qn) ==
    {[parsed |-> ParseThrows, info |-> InfoThrows, rendered |-> RenderThrows]}
    \cup UNION { { [parsed |-> Parsed(tag), info |-> i, rendered |-> r] :
                      i \in IF f = NoFormat /\ (qn # NoName \/ tag # NoName)
                            THEN InfoOutcomes ELSE {InfoThrows},
                      r \in RenderOutcomes } :
                  tag \in {NoName, "tagged"} }

\* options?.quillName || parsed.quillTag
quillNameOf(qn, parsed) == IF qn # NoName THEN qn ELSE parsed.quillTag

\* preview(engine, markdown, element, options), up to `await exportPreview`:
\* exportPreview runs to its end
Preview ==
    /\ expPc = "idle"
    /\ \E f \in OptionFormats, qn \in {NoName, "named"} :
        \E eng \in PreviewEngines(f, qn) :
          /\ expCall' = CallOf("preview", f, qn, Undefined)
          /\ engine' = eng
          /\ IF eng.parsed.kind = "throw"
             THEN /\ expPc' = "done"
                  /\ expOut' = eng.parsed
                  /\ UNCHANGED <<renderCalls, result>>
             ELSE LET format == getPreferredPreviewFormat(
                                    eng.info, quillNameOf(qn, eng.parsed), f)
                      res == render(eng, format)
                  IN  /\ renderCalls' = <<format>>
                      /\ IF res.kind = "throw"
                         THEN /\ expPc' = "done"
                              /\ expOut' = res
                              /\ UNCHANGED result
                         ELSE /\ expPc' = "previewed"
                              /\ result' = res
                              /\ UNCHANGED expOut
    /\ UNCHANGED <<env, artifactBytes, blob, innerHTML, objectURLs, saved, domSteps, revokeTimers,
                   rendererBuffer>>
    /\ UNCHANGED <<loadVars, normVars, debVars, pageVars, renderVars, docVars, overlapVars>>

embedMarkup(url) ==
    Html(<<"<embed src=\"", url, "\" type=\"application/pdf\" width=\"100%\" height=\"600px\" />">>,
         <<>>, <<>>)

\* preview with the target cleared before the artifact is extracted
elementContentCleared(current, b, format, url) ==
    IF b.kind = "throw" THEN Html(<<>>, <<>>, <<>>)
    ELSE IF format = "svg" THEN Html(<<>>, TextDecode(b.data), <<>>)
    ELSE IF format = "pdf" THEN embedMarkup(url)
    ELSE Html(<<"<pre>">>, TextDecode(b.data), <<"</pre>">>)

\* element.innerHTML after preview's last statements: the extraction throws
\* before any assignment to it, otherwise exactly one branch assigns it
elementContent(current, b, format, url) ==
    IF b.kind = "throw" THEN current
    ELSE IF format = "svg" THEN Html(<<>>, TextDecode(b.data), <<>>)
    ELSE IF format = "pdf" THEN embedMarkup(url)
    ELSE Html(<<"<pre>">>, TextDecode(b.data), <<"</pre>">>)

\* preview after `await exportPreview`
PreviewResume ==
    /\ expPc = "previewed"
    /\ expPc' = "done"
    /\ LET b == extractArtifact(result, 1)
           format == result.outputFormat
       IN  /\ innerHTML' = elementContent(innerHTML, b, format,
                                          ObjectURL(Len(objectURLs) + 1))
           /\ IF b.kind = "throw"
              THEN /\ expOut' = b
                   /\ UNCHANGED <<artifactBytes, blob, objectURLs, rendererBuffer>>
              ELSE /\ expOut' = Undefined
                   /\ artifactBytes' = b
                   /\ rendererBuffer' = bufferViewed(b)
                   /\ IF format = "pdf"
                      THEN /\ blob' = BlobOf(slice(b, 2), "application/pdf")
                           /\ objectURLs' = Append(objectURLs,
                                                   [blob |-> blob', revoked |-> FALSE])
                      ELSE UNCHANGED <<blob, objectURLs>>
    /\ UNCHANGED <<expCall, env, engine, renderCalls, result, saved, domSteps, revokeTimers>>
    /\ UNCHANGED <<loadVars, normVars, debVars, pageVars, renderVars, docVars, overlapVars>>

RevokeDelay == 1500

Step(op, arg) == [op |-> op, arg |-> arg]

downloadBlobRevokingAtOnce(url, filename) ==
    <<Step("URL.createObjectURL", url),
      Step("document.createElement", "a"),
      Step("a.href =", url),
      Step("a.download =", filename),
      Step("document.body.appendChild", "a"),
      Step("URL.revokeObjectURL", url),
      Step("a.click", ""),
      Step("a.remove", ""),
      Step("setTimeout", ToString(RevokeDelay))>>

\* the calls downloadBlob makes before it returns
downloadBlob(url, filename) ==
    <<Step("URL.createObjectURL", url),
      Step("document.createElement", "a"),
      Step("a.href =", url),
      Step("a.download =", filename),
      Step("document.body.appendChild", "a"),
      Step("a.click", ""),
      Step("a.remove", ""),
      Step("setTimeout", ToString(RevokeDelay))>>

\* downloadDocument(engine, markdown, outputFilename, options) with the
\* downloadBlob it calls; neither has a suspension point
DownloadDocument ==
    /\ expPc = "idle"
    /\ \E f \in OptionFormats, name \in Filenames, eng \in Engines :
          LET format == formatOrPdf(f)
              r == rendering(eng, format)
          IN  /\ expCall' = CallOf("downloadDocument", f, NoName, name)
              /\ engine' = eng
              /\ renderCalls' = r.calls
              /\ result' = r.result
              /\ artifactBytes' = r.bytes
              /\ rendererBuffer' = bufferViewed(r.bytes)
              /\ IF r.thrown = NoValue
                 THEN /\ blob' = BlobOf(slice(r.bytes, 2), mimeType(format))
                      /\ objectURLs' = Append(objectURLs,
                                              [blob |-> blob', revoked |-> FALSE])
                      /\ saved' = Append(saved,
                                    [href |-> ObjectURL(Len(objectURLs')),
                                     download |-> filenameOrDefault(name, format)])
                      /\ domSteps' = domSteps \o downloadBlob(ObjectURL(Len(objectURLs')),
                                                      filenameOrDefault(name, format))
                      /\ revokeTimers' = revokeTimers \cup {Len(objectURLs')}
                      /\ expOut' = Undefined
                 ELSE /\ expOut' = r.thrown
                      /\ UNCHANGED <<blob, objectURLs, saved, domSteps, revokeTimers>>
    /\ expPc' = "done"
    /\ UNCHANGED <<env, innerHTML>>
    /\ UNCHANGED <<loadVars, normVars, debVars, pageVars, renderVars, docVars, overlapVars>>

\* the callback of downloadBlob's setTimeout
RevokeObjectURL ==
    /\ \E n \in revokeTimers :
          /\ objectURLs' = [objectURLs EXCEPT ![n].revoked = TRUE]
          /\ revokeTimers' = revokeTimers \ {n}
          /\ domSteps' = Append(domSteps, Step("URL.revokeObjectURL", ObjectURL(n)))
    /\ UNCHANGED <<expPc, expCall, env, engine, renderCalls, result, artifactBytes, blob,
                   expOut, innerHTML, saved, rendererBuffer>>
    /\ UNCHANGED <<loadVars, normVars, debVars, pageVars, renderVars, docVars, overlapVars>>

\* the engine or the caller overwrites, in place, the buffer the engine
\* handed out (one overwrite, to any content of the same length)
OverwriteRendererBuffer ==
    /\ expPc # "idle"
    /\ rendererBuffer.held
    /\ rendererBuffer.data = artifactBytes.data
    /\ \E d \in ByteSequences :
          /\ Len(d) = Len(rendererBuffer.data)
          /\ d # rendererBuffer.data
          /\ rendererBuffer' = [rendererBuffer EXCEPT !.data = d]
    /\ UNCHANGED <<expPc, expCall, env, engine, renderCalls, result, artifactBytes, blob,
                   expOut, innerHTML, objectURLs, saved, domSteps, revokeTimers>>
    /\ UNCHANGED <<loadVars, normVars, debVars, pageVars, renderVars, docVars, overlapVars>>

NextExport ==
    \/ ExportToBlob
    \/ ExportToDataUrl
    \/ ChooseEncoder
    \/ ReaderLoadEnd
    \/ ReaderError
    \/ Preview
    \/ PreviewResume
    \/ DownloadDocument
    \/ RevokeObjectURL
    \/ OverwriteRendererBuffer

SpecExport == Init /\ [][NextExport]_vars

NextDownload == DownloadDocument \/ RevokeObjectURL

\* downloadDocument alone; the browser runs the timeout downloadBlob set
FairSpecDownload == Init /\ [][NextDownload]_vars /\ WF_vars(RevokeObjectURL)

----------------------------------------------------------------------------
(* utils.ts: debounce. window.setTimeout runs its callback once, no earlier
   than the delay after the call that set it; window.clearTimeout of an id
   whose callback has run does nothing. *)

DefaultWait == 250
MaxCalls == 3
MaxTime == 350
TickMs == 50

\* the wait argument of debounce(fn, wait)
WaitOmitted == [given |-> FALSE, ms |-> 0]
WaitGiven(ms) == [given |-> TRUE, ms |-> ms]

\* wait = 250
waitOrDefault(w) == IF w.given THEN w.ms ELSE DefaultWait

keepTimeouts(set, id) == set

\* if (t) window.clearTimeout(t)
clearTimeout(set, id) == IF id # 0 THEN {x \in set : x.id # id} ELSE set

\* window.setTimeout(() => fn(...args), wait)
setTimeout(set, id, args, wait) ==
    set \cup {[id |-> id, due |-> now + wait, args |-> args]}

(* Inputs of debounce *)
WaitArguments == {WaitOmitted, WaitGiven(0), WaitGiven(100)}
Arguments == {"first", "second"}

\* debounce(fn, wait)
Debounce ==
    /\ ~debounced.made
    /\ \E w \in WaitArguments :
          debounced' = [made |-> TRUE, arg |-> w, wait |-> waitOrDefault(w)]
    /\ UNCHANGED <<now, timerId, timers, nextTimer, log>>
    /\ UNCHANGED <<loadVars, normVars, expVars, pageVars, renderVars, docVars, overlapVars>>

\* the wrapper is called with args
CallDebounced ==
    /\ debounced.made
    /\ nextTimer <= MaxCalls
    /\ now + debounced.wait <= MaxTime - TickMs
    /\ \E args \in Arguments :
          /\ timers' = setTimeout(clearTimeout(timers, timerId), nextTimer, args,
                                  debounced.wait)
          /\ log' = Append(log, [event |-> "call", at |-> now, args |-> args])
    /\ timerId' = nextTimer
    /\ nextTimer' = nextTimer + 1
    /\ UNCHANGED <<now, debounced>>
    /\ UNCHANGED <<loadVars, normVars, expVars, pageVars, renderVars, docVars, overlapVars>>

\* a timeout runs its callback: fn(...args)
TimeoutFires ==
    /\ \E x \in timers :
          /\ x.due <= now
          /\ timers' = timers \ {x}
          /\ log' = Append(log, [event |-> "fn", at |-> now, args |-> x.args])
    /\ UNCHANGED <<now, debounced, timerId, nextTimer>>
    /\ UNCHANGED <<loadVars, normVars, expVars, pageVars, renderVars, docVars, overlapVars>>

\* time passes
Tick ==
    /\ now + TickMs <= MaxTime
    /\ now' = now + TickMs
    /\ UNCHANGED <<debounced, timerId, timers, nextTimer, log>>
    /\ UNCHANGED <<loadVars, normVars, expVars, pageVars, renderVars, docVars, overlapVars>>

NextDebounce == Debounce \/ CallDebounced \/ TimeoutFires \/ Tick

SpecDebounce == Init /\ [][NextDebounce]_vars

\* the browser lets time pass and runs every timeout that is due
FairSpecDebounce == SpecDebounce /\ WF_vars(Tick) /\ WF_vars(TimeoutFires)

----------------------------------------------------------------------------
(* Vocabulary of the bundle contract *)

Children(t, p) == {q \in DOMAIN t : Len(q) = Len(p) + 1 /\ IsPrefix(p, q)}

IsObjectAt(t, p) == p \in DOMAIN t /\ t[p].kind = "object"

HasContents(t, p) ==
    /\ Append(p, CONTENTS) \in DOMAIN t
    /\ t[Append(p, CONTENTS)].kind \in {"string", "array"}

ContentsAt(t, p) == t[Append(p, CONTENTS)]

\* { contents: <string or array> } and nothing else
IsFileEntry(t, p) ==
    /\ IsObjectAt(t, p)
    /\ HasContents(t, p)
    /\ Children(t, p) = {Append(p, CONTENTS)}

\* a mapping of names to entries
IsDirectoryEntry(t, p) ==
    /\ IsObjectAt(t, p)
    /\ \A q \in Children(t, p) : t[q].kind = "object"

Finished == pc = "done"
Decompressed == pc = "done" /\ ~unzipErr
Resolved == pc = "done" /\ outcome = "resolved"
Files == delivered.files

IsMarker(path) == EndsWith(path, "/")
FileIndexes == {i \in 1..Len(unzipped) : ~IsMarker(unzipped[i].path)}

FirstSegment(path) ==
    IF Includes(path, "/") THEN Substring(path, 0, IndexOf(path, "/")) ELSE path

AllFirstSegments(unz) == {FirstSegment(p) : p \in Keys(unz)}

Under(path, X) == StartsWith(path, X \o <<"/">>)

\* the path of an entry inside the bundle: the wrapper prefix removed when
\* stripping applies
BundlePath(path) ==
    IF Len(usedPrefix) > 0 /\ StartsWith(path, usedPrefix)
    THEN Slice(path, Len(usedPrefix))
    ELSE path

BundleParts(path) == Split(BundlePath(path), "/")

\* entries the loop inserts
Inserted == {i \in FileIndexes :
                Len(usedPrefix) = 0 \/ StartsWith(unzipped[i].path, usedPrefix)}

----------------------------------------------------------------------------
(* C1: on every archive on which fromZip resolves, files["Quill.toml"] is a
   File Entry whose contents is a string, never a Directory Entry and never
   a byte array. *)
C1_ManifestIsTextFile ==
    Resolved =>
        /\ IsFileEntry(Files, <<QUILL_TOML>>)
        /\ ContentsAt(Files, <<QUILL_TOML>>).kind = "string"

(* C2: fromZip settles exactly once; it rejects when decompression fails,
   rejects with the message naming Quill.toml and the archive root when no
   manifest file is at the bundle root after stripping, and otherwise
   resolves with a bundle; a rejected call delivers no bundle. *)
ManifestAtBundleRoot ==
    \E i \in Inserted : BundlePath(unzipped[i].path) = QUILL_TOML

NamesManifestAndRoot(msg) ==
    /\ \E i \in 1..Len(msg) : msg[i] = "Quill.toml"
    /\ \E i \in 1..Len(msg) : msg[i] = "root of the archive"

C2_SettlesOnceAtomically ==
    Finished =>
        /\ settles = 1
        /\ unzipErr => outcome = "rejected"
        /\ (~unzipErr /\ ~ManifestAtBundleRoot) =>
               outcome = "rejected" /\ NamesManifestAndRoot(errMsg)
        /\ (~unzipErr /\ ManifestAtBundleRoot) =>
               outcome = "resolved" /\ IsObjectAt(Files, <<>>)
        /\ outcome = "rejected" => delivered = NoBundle

(* C3: a top-level folder X is stripped only when no Quill.toml file is at
   the archive root, the first path segments of ALL entries (root-level files
   included) are the single segment X, and X/Quill.toml exists; otherwise no
   path is altered, and an archive holding X/Quill.toml together with an
   entry outside X/ is not stripped and fails with the missing-manifest
   error. *)
StripConditions(unz, X) ==
    /\ QUILL_TOML \notin Keys(unz)
    /\ AllFirstSegments(unz) = {X}
    /\ (X \o <<"/">> \o QUILL_TOML) \in Keys(unz)

C3_StripsOnlySoleTopLevelFolder ==
    Decompressed =>
        /\ Len(usedPrefix) > 0 =>
              \E X \in AllFirstSegments(unzipped) :
                  StripConditions(unzipped, X) /\ usedPrefix = X \o <<"/">>
        /\ \A X \in AllFirstSegments(unzipped) :
              ( /\ (X \o <<"/">> \o QUILL_TOML) \in Keys(unzipped)
                /\ QUILL_TOML \notin Keys(unzipped)
                /\ \E p \in Keys(unzipped) : ~Under(p, X) )
              => /\ usedPrefix = <<>>
                 /\ outcome = "rejected"
                 /\ errMsg = ManifestMissing

(* C4 as stated: for an archive whose entries all lie under one folder X/
   and which holds X/Quill.toml, fromZip resolves, every entry X/p appears at
   path p, and files has no key X. *)
WrappedBy(unz, X) ==
    /\ \A p \in Keys(unz) : Under(p, X)
    /\ (X \o <<"/">> \o QUILL_TOML) \in Keys(unz)

InnerPath(path, X) == Slice(path, Len(X) + 1)

Unwrap(unz, X) ==
    LET inner == SelectSeq(unz, LAMBDA e : e.path # X \o <<"/">>)
    IN  [i \in 1..Len(inner) |->
            [path |-> InnerPath(inner[i].path, X), data |-> inner[i].data]]

C5_NodeIsFileXorDirectory ==
    Resolved =>
        \A p \in DOMAIN Files :
            Files[p].kind = "object" =>
                (IsFileEntry(Files, p) # IsDirectoryEntry(Files, p))

(* C6: every non-directory archive entry with path p (wrapper prefix removed
   when stripping applies) is a File Entry of the loaded bundle at the nested
   position of p, every intermediate segment being a Directory Entry; no file
   entry of the archive is missing. *)
C6_EveryFileEntryIsInTheBundle ==
    Resolved =>
        \A i \in FileIndexes :
            LET parts == BundleParts(unzipped[i].path)
            IN  /\ IsFileEntry(Files, parts)
                /\ \A k \in 1..(Len(parts) - 1) :
                      IsDirectoryEntry(Files, SubSeq(parts, 1, k))

(* C7: a loaded file entry whose extension, compared case-insensitively, is
   one of the binary extensions has as contents a plain array of integers
   0..255 equal to the entry's bytes in order; every other loaded file entry
   (other extension, or none) has a string as contents. *)
FileName(path) == Slice(path, LastIndexOf(path, "/") + 1)

HasBinaryExtension(path) ==
    LET name == FileName(path)
    IN  /\ Includes(name, ".")
        /\ \E e \in {"png", "jpg", "jpeg", "gif", "webp", "bmp", "ico", "ttf",
                     "otf", "woff", "woff2", "pdf", "zip", "tar", "gz"} :
              ToLowerCase(Slice(name, LastIndexOf(name, ".") + 1)) = <<e>>

Loaded == {i \in Inserted : HasContents(Files, BundleParts(unzipped[i].path))}

C7_ContentsTypeFollowsExtension ==
    Resolved =>
        \A i \in Loaded :
            LET c == ContentsAt(Files, BundleParts(unzipped[i].path))
                bytes == unzipped[i].data
            IN  IF HasBinaryExtension(unzipped[i].path)
                THEN /\ c.kind = "array"
                     /\ Len(c.data) = Len(bytes)
                     /\ \A k \in 1..Len(bytes) :
                           c.data[k] = bytes[k] /\ c.data[k] \in 0..255
                ELSE c.kind = "string"

C7_Witness ==
    /\ Resolved
    /\ \E i, k \in Loaded :
          /\ unzipped[i].path = <<Wrapper, "/", "logo", ".", "PNG">>
          /\ HasBinaryExtension(unzipped[i].path)
          /\ ContentsAt(Files, BundleParts(unzipped[i].path)).kind = "array"
          /\ unzipped[k].path = <<Wrapper, "/", Wrapper, "/", "glue", ".", "typ">>
          /\ ~HasBinaryExtension(unzipped[k].path)
          /\ ContentsAt(Files, BundleParts(unzipped[k].path)).kind = "string"

(* C8: an entry whose path ends in "/" never produces a node: every node of
   the bundle lies on the path of a file entry that was inserted, no node is
   named by the empty segment a marker's path ends in, and every directory
   has a file beneath it. *)
C8_MarkersProduceNoNode ==
    Resolved =>
        /\ \A q \in DOMAIN Files :
              \/ q = <<>>
              \/ \E i \in Inserted :
                    \/ IsPrefix(q, BundleParts(unzipped[i].path))
                    \/ q = Append(BundleParts(unzipped[i].path), CONTENTS)
        /\ \A q \in DOMAIN Files : \A k \in 1..Len(q) : q[k] # <<>>
        /\ \A q \in DOMAIN Files :
              (q # <<>> /\ IsObjectAt(Files, q) /\ ~HasContents(Files, q)) =>
                  \E r \in DOMAIN Files :
                      IsPrefix(q, r) /\ r # q /\ HasContents(Files, r)

C8_Witness ==
    /\ Resolved
    /\ \E i \in 1..Len(unzipped) : unzipped[i].path = <<Wrapper, "/">>
    /\ ~HasKey(Files, <<>>, <<Wrapper>>)
    /\ usedPrefix = <<>>

----------------------------------------------------------------------------
(* C9: toUint8Array is idempotent: a Uint8Array is returned unchanged (the
   same object, the same bytes), so applying toUint8Array to its own result
   gives that result again. *)
C9_NormalizeIsIdempotent ==
    /\ (normIn.kind = "Uint8Array" /\ normOut # NoValue) => normOut = normIn
    /\ normOut2 # NoValue => normOut2 = normOut

C9_Witness ==
    /\ normOut2 # NoValue
    /\ normIn.kind = "string"
    /\ Len(normOut.data) > 0
    /\ normOut2.ref = normOut.ref

(* C10: for a plain array whose elements are integers 0..255, of any length
   including 0, toUint8Array yields a byte sequence of the same length with
   the same element at every index. *)
IsByteArray(v) ==
    v.kind = "Array" /\ \A i \in 1..Len(v.data) : v.data[i] \in 0..255

C10_ArrayOfBytesRoundTrips ==
    (IsByteArray(normIn) /\ normOut # NoValue) =>
        /\ normOut.kind = "Uint8Array"
        /\ Len(normOut.data) = Len(normIn.data)
        /\ \A i \in 1..Len(normIn.data) : normOut.data[i] = normIn.data[i]

C10_Witness ==
    /\ IsByteArray(normIn)
    /\ normOut # NoValue
    /\ Len(normIn.data) = 2
    /\ normIn.data[1] = 255

(* C11: toUint8Array either returns a Uint8Array or fails with the
   "Unsupported artifact bytes type" error whose message carries the runtime
   type description of the value; it fails in no other way, and on null,
   undefined, a { bytes } wrapper of one of these shapes, a Uint8Array, an
   ArrayBuffer, a plain array or a string it returns a Uint8Array. *)
IsUnsupportedBytesError(r) ==
    /\ r.kind = "throw"
    /\ r.error = "Error"
    /\ Len(r.message) = 2
    /\ r.message[1] = "Unsupported artifact bytes type: "
    /\ r.message[2] = "[object Object]"

RECURSIVE IsRecognisedShape(_)
IsRecognisedShape(v) ==
    \/ v.kind \in {"null", "undefined", "Uint8Array", "ArrayBuffer", "Array", "string"}
    \/ v.kind = "object" /\ v.hasBytes /\ IsRecognisedShape(v.bytes)

C11_BytesOrUnsupportedError ==
    normOut # NoValue =>
        /\ normOut.kind = "Uint8Array" \/ IsUnsupportedBytesError(normOut)
        /\ IsRecognisedShape(normIn) => normOut.kind = "Uint8Array"

(* C12: extractArtifact takes element 0 of result.artifacts when that is an
   array (undefined when the array is empty), else artifacts.main when it is
   an object with a main key, else result.artifacts itself; what it returns
   (or throws) is toUint8Array of that candidate alone. *)
Extracted == result # NoValue /\ expPc # "previewed"

ExtractOutcome == IF artifactBytes # NoValue THEN artifactBytes ELSE expOut

IsMapping(a) == a.kind = "object" /\ "hasMain" \in DOMAIN a

C12_CandidateByPrecedence ==
    Extracted =>
        LET a == result.artifacts
        IN  /\ (a.kind = "Array" /\ Len(a.data) > 0) =>
                   ExtractOutcome = toUint8Array(a.data[1], 1)
            /\ (a.kind = "Array" /\ Len(a.data) = 0) =>
                   ExtractOutcome = toUint8Array(Undefined, 1)
            /\ (a.kind # "Array" /\ IsMapping(a)) =>
                   ExtractOutcome = toUint8Array(a.main, 1)
            /\ (a.kind # "Array" /\ ~IsMapping(a)) =>
                   ExtractOutcome = toUint8Array(a, 1)

C12_Witness ==
    /\ Extracted
    /\ IsMapping(result.artifacts)
    /\ result.artifacts.hasBytes
    /\ result.artifacts.bytes # result.artifacts.main
    /\ artifactBytes = result.artifacts.main.bytes

(* C13: the Blob exportToBlob resolves with has type application/pdf for
   format pdf, image/svg+xml for svg, text/plain for txt, and
   application/pdf when options give no format. *)
ReturnedBlob == expCall.op = "exportToBlob" /\ expOut.kind = "Blob"

C13_BlobTypeFollowsFormat ==
    ReturnedBlob =>
        /\ expCall.format = "pdf" => expOut.type = "application/pdf"
        /\ expCall.format = "svg" => expOut.type = "image/svg+xml"
        /\ expCall.format = "txt" => expOut.type = "text/plain"
        /\ expCall.format = NoFormat => expOut.type = "application/pdf"

C13_Witness ==
    /\ ReturnedBlob
    /\ expCall.format = "txt"
    /\ expOut.type = "text/plain"
    /\ Len(expOut.data) > 0

(* C14: the Blob exportToBlob resolves with holds exactly the bytes
   toUint8Array gives for the primary artifact (same length, same values,
   none for an empty artifact); the Blob never changes afterwards, in
   particular not when the engine's buffer is overwritten; and the call
   leaves the engine's buffer as the engine handed it out. *)
CanonicalBytes == toUint8Array(artifactCandidate(result), 1)

HandedOut == toUint8Array(artifactCandidate(render(engine, formatOrPdf(expCall.format))), 1)

BlobHoldsCanonicalBytes ==
    ReturnedBlob =>
        /\ Len(expOut.data) = Len(CanonicalBytes.data)
        /\ \A i \in 1..Len(expOut.data) : expOut.data[i] = CanonicalBytes.data[i]

BlobKeepsItsBytes == ReturnedBlob => (ReturnedBlob' /\ expOut' = expOut)

CallLeavesBufferAlone ==
    (expPc = "idle" /\ ReturnedBlob' /\ rendererBuffer'.held) =>
        rendererBuffer'.data = HandedOut'.data

C14_BlobIsExactCopy ==
    /\ []BlobHoldsCanonicalBytes
    /\ [][BlobKeepsItsBytes]_vars
    /\ [][CallLeavesBufferAlone]_vars

C14_Witness ==
    /\ ReturnedBlob
    /\ rendererBuffer.held
    /\ Len(expOut.data) = 2
    /\ expOut.data = artifactBytes.data
    /\ rendererBuffer.data # expOut.data

(* C15: whenever exportToDataUrl resolves, its value is the string
   data:<mime>;base64, with <mime> the MIME type of options.format (of pdf
   when no format is given), followed by the padded base64 encoding of the
   bytes toUint8Array gives for the primary artifact. *)
ResolvedDataUrl ==
    expCall.op = "exportToDataUrl" /\ expPc = "done" /\ expOut.kind = "string"

IsBase64Of(s, b) ==
    /\ Len(s) = 4 * ((Len(b) + 2) \div 3)
    /\ \A i \in 1..Len(s) : IsBase64Char(s[i]) \/ s[i] = 61
    /\ Len(s) > 0 => atobAccepts(s) /\ atob(s) = b
    /\ Len(s) = 0 => Len(b) = 0

C15_DataUrlOfCanonicalBytes ==
    ResolvedDataUrl =>
        /\ Len(expOut.head) = 3
        /\ expOut.head[1] = "data:"
        /\ expOut.head[3] = ";base64,"
        /\ expCall.format \in {"pdf", NoFormat} => expOut.head[2] = "application/pdf"
        /\ expCall.format = "svg" => expOut.head[2] = "image/svg+xml"
        /\ expCall.format = "txt" => expOut.head[2] = "text/plain"
        /\ IsBase64Of(expOut.data, CanonicalBytes.data)

C15_Witness ==
    /\ ResolvedDataUrl
    /\ env.FileReader
    /\ expCall.format = "svg"
    /\ CanonicalBytes.data = <<0, 255>>
    /\ expOut.data = <<65, 80, 56, 61>>

(* C16: once exportToDataUrl has its Blob, it reads it with FileReader when
   FileReader is defined, otherwise encodes it with Buffer when Buffer is
   defined, and otherwise fails; it fails with the "requires either
   FileReader ... or Buffer" error exactly when neither is defined. That
   failure comes after exactly one engine.render call and touches nothing
   but the call's own promise: no element content, object URL or download. *)
IsEncodingUnavailable(r) ==
    r.kind = "throw" /\ r.error = "Error" /\ r.message = EncodingUnavailable

HasItsBlob == expCall.op = "exportToDataUrl" /\ blob # NoValue

EncoderInOrder ==
    (expPc = "encode" /\ expPc' # "encode") =>
        /\ env.FileReader => expPc' = "reading"
        /\ (~env.FileReader /\ env.Buffer) =>
               expPc' = "done" /\ expOut'.kind = "string"
        /\ (~env.FileReader /\ ~env.Buffer) =>
               expPc' = "done" /\ IsEncodingUnavailable(expOut')

FailsIffNoEncoder ==
    /\ (HasItsBlob /\ expPc = "done") =>
           (IsEncodingUnavailable(expOut) <=> (~env.FileReader /\ ~env.Buffer))
    /\ IsEncodingUnavailable(expOut) =>
           /\ HasItsBlob
           /\ Len(renderCalls) = 1
           /\ innerHTML = Html(<<"<p>old</p>">>, <<>>, <<>>)
           /\ objectURLs = <<>>
           /\ saved = <<>>

C16_EncoderOrderAndFailure == []FailsIffNoEncoder /\ [][EncoderInOrder]_vars

C16_Witness ==
    /\ IsEncodingUnavailable(expOut)
    /\ Len(renderCalls) = 1
    /\ artifactBytes.data = <<65>>

(* C17: after preview with options.format = f has written the element, the
   content follows f: for svg it is the decoded artifact text as markup; for
   pdf it is an embed tag with type="application/pdf" whose src is an object
   URL created for a Blob of the artifact bytes; for txt or any other value
   it is the decoded text inside a pre element. *)
PreviewWritten ==
    expCall.op = "preview" /\ expPc = "done" /\ expOut = Undefined

IsEmbedOfBytes(h, b) ==
    /\ Len(h.before) = 3
    /\ h.before[1] = "<embed src=\""
    /\ h.before[3] = "\" type=\"application/pdf\" width=\"100%\" height=\"600px\" />"
    /\ Len(h.text) = 0
    /\ Len(h.after) = 0
    /\ \E n \in 1..Len(objectURLs) :
          /\ h.before[2] = ObjectURL(n)
          /\ objectURLs[n].blob.data = b

C17_ContentFollowsDeclaredFormat ==
    (PreviewWritten /\ expCall.format # NoFormat) =>
        LET text == TextDecode(artifactBytes.data)
        IN  /\ expCall.format = "svg" => innerHTML = Html(<<>>, text, <<>>)
            /\ expCall.format = "pdf" => IsEmbedOfBytes(innerHTML, artifactBytes.data)
            /\ expCall.format \notin {"svg", "pdf"} =>
                   innerHTML = Html(<<"<pre>">>, text, <<"</pre>">>)

(* C18: getPreferredPreviewFormat never throws: a preview call whose markdown
   parses always reaches engine.render, and the format it hands to render is
   options.format when that is given; otherwise, when a quill name is known
   and getQuillInfo answers a supportedFormats list, svg if the list has svg,
   else pdf if it has pdf, else txt if it has txt; and svg when no quill name
   is known or getQuillInfo throws. *)
PreviewParsed == expCall.op = "preview" /\ engine.parsed.kind = "parsed"

NameKnown == quillNameOf(expCall.quillName, engine.parsed) # NoName

ListObtainable == NameKnown /\ engine.info.kind = "info" /\ engine.info.hasFormats

C18_PreferredFormat ==
    PreviewParsed =>
        /\ Len(renderCalls) = 1
        /\ LET chosen == renderCalls[1]
               list == engine.info.supportedFormats
           IN  /\ expCall.format # NoFormat => chosen = expCall.format
               /\ (expCall.format = NoFormat /\ ListObtainable) =>
                      /\ "svg" \in list => chosen = "svg"
                      /\ ("svg" \notin list /\ "pdf" \in list) => chosen = "pdf"
                      /\ ("svg" \notin list /\ "pdf" \notin list /\ "txt" \in list) =>
                             chosen = "txt"
               /\ (expCall.format = NoFormat /\ ~NameKnown) => chosen = "svg"
               /\ (expCall.format = NoFormat /\ NameKnown /\ engine.info.kind = "throw") =>
                      chosen = "svg"

C18_Witness ==
    /\ PreviewParsed
    /\ expCall.format = NoFormat
    /\ expCall.quillName = NoName
    /\ ListObtainable
    /\ engine.info.supportedFormats = {"pdf", "txt", "png"}
    /\ renderCalls = <<"pdf">>

(* C19: a downloadDocument call that completes starts one download, named by
   the outputFilename argument when a (non-empty) filename is given and
   otherwise document.pdf, document.svg or document.txt according to
   options.format (document.pdf when no format is given); the href of the
   download is the object URL of a Blob whose type is the MIME type of that
   same format. *)
Downloaded ==
    expCall.op = "downloadDocument" /\ expPc = "done" /\ expOut = Undefined

FilenameSupplied == expCall.filename.kind = "string" /\ expCall.filename.text # ""

WaitInForce == IF debounced.arg.given THEN debounced.arg.ms ELSE 250

FnOnlyAfterQuietWait ==
    \A k \in 1..Len(log) :
        log[k].event = "fn" =>
            /\ k > 1
            /\ log[k - 1].event = "call"
            /\ log[k].args = log[k - 1].args
            /\ log[k].at >= log[k - 1].at + WaitInForce

NoFnInsideBurst ==
    \A i \in 1..Len(log), j \in 1..Len(log) :
        (/\ i < j
         /\ log[i].event = "call"
         /\ log[j].event = "call"
         /\ \A k \in (i + 1)..(j - 1) : log[k].event # "call"
         /\ log[j].at < log[i].at + WaitInForce) => j = i + 1

AwaitingFn == Len(log) > 0 /\ log[Len(log)].event = "call"
FnCalled == Len(log) > 0 /\ log[Len(log)].event = "fn"

C20_DebounceCallsOncePerBurst ==
    /\ [](FnOnlyAfterQuietWait /\ NoFnInsideBurst)
    /\ AwaitingFn ~> FnCalled

C20_Witness ==
    /\ Len(log) = 4
    /\ ~debounced.arg.given
    /\ log[1].event = "call" /\ log[1].args = "first" /\ log[1].at = 0
    /\ log[2].event = "call" /\ log[2].args = "second" /\ log[2].at = 0
    /\ log[3].event = "call" /\ log[3].args = "first" /\ log[3].at = 50
    /\ log[4].event = "fn" /\ log[4].args = "first" /\ log[4].at = 300

(* C21: toUint8Array applies its rules in the order null/undefined, object
   with a bytes property, Uint8Array, ArrayBuffer, plain array, string,
   anything else, and the first rule that matches decides alone: null and
   undefined give the empty Uint8Array, and a value with a bytes property,
   nested to any depth, gives toUint8Array of the innermost value, also when
   the value is an ArrayBuffer. *)
CarriesBytes(v) == "hasBytes" \in DOMAIN v /\ v.hasBytes

RECURSIVE Innermost(_)
Innermost(v) == IF CarriesBytes(v) THEN Innermost(v.bytes) ELSE v

C21_FirstMatchingRuleDecides ==
    normOut # NoValue =>
        LET v == Innermost(normIn)
        IN  /\ normOut = toUint8Array(v, 1)
            /\ v.kind \in {"null", "undefined"} =>
                   normOut.kind = "Uint8Array" /\ normOut.data = <<>>
            /\ v.kind = "Uint8Array" => normOut = v
            /\ v.kind = "ArrayBuffer" =>
                   /\ normOut.kind = "Uint8Array"
                   /\ normOut.buffer = v.ref
                   /\ normOut.data = v.data
            /\ v.kind = "Array" =>
                   /\ normOut.kind = "Uint8Array"
                   /\ Len(normOut.data) = Len(v.data)
            /\ v.kind = "string" => normOut = uint8ArrayFromString(v, 1)
            /\ v.kind \in {"object", "number", "brokenIterable"} =>
                   normOut = uint8ArrayFromAnything(v, 1)

C21_Witness ==
    /\ normOut # NoValue
    /\ normIn.kind = "object"
    /\ CarriesBytes(normIn)
    /\ normIn.bytes.kind = "ArrayBuffer"
    /\ CarriesBytes(normIn.bytes)
    /\ normIn.bytes.data = <<65>>
    /\ normOut.data = <<0>>

(* C22: for a string s, with c being s without its whitespace: when c is not
   empty, is made of base64 alphabet characters followed by zero or more '='
   and has a length divisible by 4, toUint8Array returns the base64 decoding
   of c; in every other case it returns the UTF-8 encoding of s itself. *)
Base64Shaped(c) ==
    /\ Len(c) > 0
    /\ Len(c) % 4 = 0
    /\ \E n \in 1..Len(c) :
          /\ \A i \in 1..n : IsBase64Char(c[i])
          /\ \A i \in (n + 1)..Len(c) : c[i] = 61

C22_Base64ElseUtf8 ==
    (normIn.kind = "string" /\ normOut # NoValue) =>
        LET c == removeWhitespace(normIn.data)
        IN  /\ normOut.kind = "Uint8Array"
            /\ Base64Shaped(c) => normOut.data = atob(c)
            /\ ~Base64Shaped(c) => normOut.data = TextEncode(normIn.data)

(* C23: in every run of downloadDocument that reaches downloadBlob, the calls
   happen in this order: the object URL is created, the anchor gets that URL
   and the filename, is attached and clicked, the anchor is removed, and only
   afterwards is the URL revoked; the URL is never revoked before the click,
   is revoked at most once, and is revoked once the timeout of 1500 ms set by
   downloadBlob runs. *)
StepsOf(op) == {i \in 1..Len(domSteps) : domSteps[i].op = op}

Before(opA, opB) ==
    \A i \in StepsOf(opA), j \in StepsOf(opB) : i < j

DownloadStepsInOrder ==
    /\ Downloaded =>
           /\ \A op \in {"URL.createObjectURL", "a.href =", "a.download =",
                         "document.body.appendChild", "a.click", "a.remove",
                         "setTimeout"} :
                  Cardinality(StepsOf(op)) = 1
           /\ Before("URL.createObjectURL", "a.href =")
           /\ Before("a.href =", "a.click")
           /\ Before("a.download =", "a.click")
           /\ Before("document.body.appendChild", "a.click")
           /\ Before("a.click", "a.remove")
           /\ \A i \in StepsOf("a.href =") : domSteps[i].arg = ObjectURL(1)
           /\ \A i \in StepsOf("a.download =") : domSteps[i].arg = saved[1].download
           /\ \A i \in StepsOf("setTimeout") : domSteps[i].arg = "1500"
    /\ Before("a.click", "URL.revokeObjectURL")
    /\ Before("a.remove", "URL.revokeObjectURL")
    /\ Cardinality(StepsOf("URL.revokeObjectURL")) <= 1
    /\ StepsOf("URL.revokeObjectURL") # {} => Downloaded

Released ==
    /\ Cardinality(StepsOf("URL.revokeObjectURL")) = 1
    /\ objectURLs[1].revoked

C23_DownloadStepsThenRelease ==
    /\ []DownloadStepsInOrder
    /\ Downloaded ~> Released

C23_Witness ==
    /\ Downloaded
    /\ Released
    /\ Len(domSteps) = 9
    /\ domSteps[9].op = "URL.revokeObjectURL"
    /\ domSteps[9].arg = "blob:1"
    /\ saved[1].download = "report.out"


\* ---------------------------------------------------------------------------
\* C24
\* ---------------------------------------------------------------------------

PreviewFailed == expCall.op = "preview" /\ expPc = "done" /\ expOut.kind = "throw"

ContentBeforeCall == Html(<<"<p>old</p>">>, <<>>, <<>>)

\* the one step of a preview call that may assign the target's content: the
\* last one, taken when parsing and rendering have succeeded and the artifact
\* has been extracted and normalised
WritesOnlyOnSuccess ==
    innerHTML' # innerHTML =>
        /\ expCall.op = "preview"
        /\ expPc = "previewed" /\ expPc' = "done"
        /\ engine.parsed.kind = "parsed"
        /\ result.kind = "result"
        /\ extractArtifact(result, 1).kind = "Uint8Array"
        /\ expOut' = Undefined

\* C24: a preview call that fails while parsing, rendering, extracting or
\* normalising the artifact leaves the target's content as it was before the
\* call; the target is assigned at most once per call, in the call's last step,
\* after every step that can fail has succeeded.
C24_FailedPreviewLeavesTarget ==
    /\ [](PreviewFailed => innerHTML = ContentBeforeCall)
    /\ [][WritesOnlyOnSuccess]_vars

\* a preview whose render succeeded and whose artifact extraction then threw,
\* with the target still showing its earlier content
C24_Witness ==
    /\ PreviewFailed
    /\ result.kind = "result"
    /\ extractArtifact(result, 1).kind = "throw"
    /\ innerHTML = ContentBeforeCall


-----------------------------------------------------------------------------
(* The playground: preloadAllQuills *)

\* the option values of the select element; a filename is its stem followed
\* by its extension, when it has one
Templates == { <<"usaf_form_8", ".zip">>, <<"taro", ".ZIP">>, <<"taro", ".zip">> }

RECURSIVE SeqsWithoutRepeats(_)
SeqsWithoutRepeats(S) ==
    {<<>>} \cup UNION { { <<x>> \o q : q \in SeqsWithoutRepeats(S \ {x}) } : x \in S }

OptionLists == SeqsWithoutRepeats(Templates)

Range(q) == { q[i] : i \in 1..Len(q) }

\* filename.replace(/\.zip$/i, '')
quillNameOfFile(filename) ==
    IF Len(filename) > 1 /\ filename[Len(filename)] \in {".zip", ".ZIP", ".Zip"}
    THEN SubSeq(filename, 1, Len(filename) - 1)
    ELSE filename

\* what fromZip resolved with for the archive fetched under a filename
QuillJsonOf(filename) == [kind |-> "quillJson", archive |-> filename]

Fulfilled == [kind |-> "fulfilled"]
Rejected(cause) == [kind |-> "rejected", cause |-> cause]

Waiting(at) == [pc |-> at, cause |-> "none"]
Failed(cause) == [pc |-> "failed", cause |-> cause]

\* registerQuill called whatever `await loaders.fromZip` did
reachesRegisterAlways(settled) == TRUE

\* the statements after `await loaders.fromZip(zipBlob)` run only when the
\* promise fulfilled; a rejection is thrown at the await into the catch block
reachesRegister(settled) == settled.kind = "fulfilled"

\* preloadAllQuills up to `await Promise.all`: every callback runs to its
\* `await fetch`
PreloadAllQuills ==
    /\ preloadPhase = "idle"
    /\ \E o \in OptionLists :
         /\ options' = o
         /\ IF Len(o) = 0
            THEN /\ preloadPhase' = "returned"
                 /\ UNCHANGED preloading
            ELSE /\ preloadPhase' = "awaiting"
                 /\ preloading' = [f \in Range(o) |-> Waiting("fetch")]
    /\ UNCHANGED <<registerCalls, quills, preloadedQuills>>
    /\ UNCHANGED <<loadVars, normVars, expVars, debVars, renderVars, docVars, overlapVars>>

\* `await fetch(...)` settles: rejected, answered with !response.ok, or ok
FetchSettles(f) ==
    /\ preloadPhase = "awaiting"
    /\ f \in DOMAIN preloading
    /\ preloading[f].pc = "fetch"
    /\ \E r \in {"rejected", "notOk", "ok"} :
         preloading' = [preloading EXCEPT ![f] =
                          IF r = "ok" THEN Waiting("blob")
                          ELSE Failed(IF r = "rejected" THEN "fetch" ELSE "status")]
    /\ UNCHANGED <<preloadPhase, options, registerCalls, quills, preloadedQuills>>
    /\ UNCHANGED <<loadVars, normVars, expVars, debVars, renderVars, docVars, overlapVars>>

\* `await response.blob()` settles
BlobSettles(f) ==
    /\ preloadPhase = "awaiting"
    /\ f \in DOMAIN preloading
    /\ preloading[f].pc = "blob"
    /\ \E settled \in {Fulfilled, Rejected("blob")} :
         preloading' = [preloading EXCEPT ![f] =
                          IF settled.kind = "fulfilled" THEN Waiting("fromZip")
                          ELSE Failed(settled.cause)]
    /\ UNCHANGED <<preloadPhase, options, registerCalls, quills, preloadedQuills>>
    /\ UNCHANGED <<loadVars, normVars, expVars, debVars, renderVars, docVars, overlapVars>>

\* `await loaders.fromZip(zipBlob)` settles; registerQuill throws for a name
\* the engine already holds and may throw for a bundle it does not accept,
\* and the inner catch ignores it
FromZipSettles(f) ==
    /\ preloadPhase = "awaiting"
    /\ f \in DOMAIN preloading
    /\ preloading[f].pc = "fromZip"
    /\ \E settled \in {Fulfilled, Rejected("fromZip")}, refused \in BOOLEAN :
         /\ preloading' = [preloading EXCEPT ![f] =
                             IF settled.kind = "fulfilled" THEN Waiting("loaded")
                             ELSE Failed(settled.cause)]
         /\ IF reachesRegister(settled)
            THEN LET name == quillNameOfFile(f)
                     throws == refused \/ \E q \in quills : q.name = name
                 IN  /\ registerCalls' = Append(registerCalls,
                                                [name |-> name, quill |-> QuillJsonOf(f)])
                     /\ quills' = IF throws THEN quills
                                  ELSE quills \cup {[name |-> name,
                                                     quill |-> QuillJsonOf(f)]}
                     /\ preloadedQuills' = preloadedQuills \cup
                                             {[filename |-> f, quill |-> QuillJsonOf(f)]}
            ELSE UNCHANGED <<registerCalls, quills, preloadedQuills>>
    /\ UNCHANGED <<preloadPhase, options>>
    /\ UNCHANGED <<loadVars, normVars, expVars, debVars, renderVars, docVars, overlapVars>>

\* Promise.all over callbacks that never reject: resumes when all have returned
PreloadResumes ==
    /\ preloadPhase = "awaiting"
    /\ \A f \in DOMAIN preloading : preloading[f].pc \in {"loaded", "failed"}
    /\ preloadPhase' = "preloaded"
    /\ UNCHANGED <<options, preloading, registerCalls, quills, preloadedQuills>>
    /\ UNCHANGED <<loadVars, normVars, expVars, debVars, renderVars, docVars, overlapVars>>

NextPreload ==
    \/ PreloadAllQuills
    \/ \E f \in Templates : FetchSettles(f)
    \/ \E f \in Templates : BlobSettles(f)
    \/ \E f \in Templates : FromZipSettles(f)
    \/ PreloadResumes

SpecPreload == Init /\ [][NextPreload]_vars

\* every fetch, blob read and fromZip promise settles, and a promise that has
\* settled has its continuation run by the event loop
FairSpecPreload ==
    /\ SpecPreload
    /\ \A f \in Templates :
         /\ WF_vars(FetchSettles(f))
         /\ WF_vars(BlobSettles(f))
         /\ WF_vars(FromZipSettles(f))
    /\ WF_vars(PreloadResumes)

\* ---------------------------------------------------------------------------
\* C25
\* ---------------------------------------------------------------------------

Started(f) == f \in DOMAIN preloading

LoadFailed(f) == Started(f) /\ preloading[f].pc = "failed"

FromZipResolved(f) == Started(f) /\ preloading[f].pc = "loaded"

RegisterAttempted(f) ==
    \E i \in 1..Len(registerCalls) : registerCalls[i].quill.archive = f

RecordedAsPreloaded(f) == \E p \in preloadedQuills : p.filename = f

Registered(f) == \E q \in quills : q.quill.archive = f

\* C25: registerQuill is attempted for a template only once fromZip has
\* resolved for its archive; a template whose fetch or load failed is never
\* registered nor recorded as preloaded; and whatever happens to the other
\* templates, every template started comes to its own end, and the preload
\* itself completes.
C25_RegisterOnlyAfterLoad ==
    /\ [](\A f \in Templates :
             /\ RegisterAttempted(f) => FromZipResolved(f)
             /\ LoadFailed(f) => /\ ~RegisterAttempted(f)
                                 /\ ~Registered(f)
                                 /\ ~RecordedAsPreloaded(f))
    /\ [](\A f \in Templates :
             FromZipResolved(f) => RegisterAttempted(f) /\ RecordedAsPreloaded(f))
    /\ \A f \in Templates :
         Started(f) ~> (FromZipResolved(f) \/ LoadFailed(f))
    /\ (preloadPhase = "awaiting") ~> (preloadPhase = "preloaded")

\* one archive failed to load while the two others were loaded and had their
\* registration attempted after it
C25_Witness ==
    /\ preloadPhase = "preloaded"
    /\ LoadFailed(<<"taro", ".ZIP">>)
    /\ preloading[<<"taro", ".ZIP">>].cause = "fromZip"
    /\ Len(registerCalls) = 2
    /\ Registered(<<"usaf_form_8", ".zip">>)
    /\ Registered(<<"taro", ".zip">>)
    /\ RecordedAsPreloaded(<<"taro", ".zip">>)


-----------------------------------------------------------------------------
(* The playground: render, the download button and the microtask queue *)

MaxPreviews == 2

\* what the playground's engine answers for the markdown in the editor
PageBytes == {Uint8ArrayOf(0, 0, <<65>>), Uint8ArrayOf(0, 0, <<0, 255>>)}

PageEngines ==
    {[parsed |-> ParseThrows, info |-> InfoThrows, rendered |-> RenderThrows]}
    \cup { [parsed |-> Parsed("tagged"), info |-> InfoOf({"svg", "pdf"}), rendered |-> r] :
             r \in {RenderThrows, RenderedOf(ArrayOf(<<>>), TRUE)}
                   \cup { RenderedOf(ArrayOf(<<WrapperOf(b)>>), reports) :
                            b \in PageBytes, reports \in BOOLEAN } }

getFormatForQuill(quillName) ==
    IF quillName = <<"usaf_form_8">> THEN "pdf" ELSE "svg"

\* the promise exportPreview returns: the function has no suspension point
exportPreview(eng, userFormat) ==
    IF eng.parsed.kind = "throw" THEN eng.parsed
    ELSE render(eng, getPreferredPreviewFormat(eng.info,
                                               quillNameOf(NoName, eng.parsed),
                                               userFormat))

PreviewJob(call) == [kind |-> "preview", call |-> call]
DownloadJob(awaited) == [kind |-> "download", awaited |-> awaited]

\* the newest continuation run first
nextMicrotaskNewest(queue) == Len(queue)

\* the microtask queue is first in, first out: the continuation run next is
\* the one queued earliest
nextMicrotask(queue) == 1

Without(queue, k) == SubSeq(queue, 1, k - 1) \o SubSeq(queue, k + 1, Len(queue))

\* preview scheduling the release of the URL it embedded
revokeTimersAfterEmbedReleasing(pending, n) == pending \cup {n}

\* the pdf branch of preview creates the object URL and neither revokes it
\* nor sets a timer that would
revokeTimersAfterEmbed(pending, n) == pending

\* render(): toElement on the preview element, up to `await exportPreview`
Render ==
    /\ Len(previews) < MaxPreviews
    /\ \E sel \in Templates, eng \in PageEngines :
         LET format == getFormatForQuill(quillNameOfFile(sel))
         IN  /\ previews' = Append(previews, [format |-> format,
                                              awaited |-> exportPreview(eng, format),
                                              state |-> "awaiting"])
             /\ microtasks' = Append(microtasks, PreviewJob(Len(previews) + 1))
    /\ UNCHANGED <<writes, clicks>>
    /\ UNCHANGED <<loadVars, normVars, expVars, debVars, pageVars, docVars, overlapVars>>

\* a preview call resumed after `await exportPreview`
PreviewContinues ==
    /\ microtasks # <<>>
    /\ LET k == nextMicrotask(microtasks)
           job == microtasks[k]
       IN  /\ job.kind = "preview"
           /\ microtasks' = Without(microtasks, k)
           /\ LET i == job.call
                  res == previews[i].awaited
                  b == IF res.kind = "throw" THEN res ELSE extractArtifact(res, 1)
                  format == IF res.kind = "throw" THEN NoFormat ELSE res.outputFormat
                  n == Len(objectURLs) + 1
              IN  /\ innerHTML' = elementContent(innerHTML, b, format, ObjectURL(n))
                  /\ IF b.kind = "throw"
                     THEN /\ previews' = [previews EXCEPT ![i].state = "rejected"]
                          /\ UNCHANGED <<writes, objectURLs, revokeTimers>>
                     ELSE /\ previews' = [previews EXCEPT ![i].state = "fulfilled"]
                          /\ writes' = Append(writes,
                                         [call |-> i,
                                          url |-> IF format = "pdf" THEN n ELSE 0,
                                          content |-> innerHTML'])
                          /\ IF format = "pdf"
                             THEN /\ objectURLs' = Append(objectURLs,
                                        [blob |-> BlobOf(slice(b, 2), "application/pdf"),
                                         revoked |-> FALSE])
                                  /\ revokeTimers' = revokeTimersAfterEmbed(revokeTimers, n)
                             ELSE UNCHANGED <<objectURLs, revokeTimers>>
    /\ UNCHANGED clicks
    /\ UNCHANGED <<expPc, expCall, env, engine, renderCalls, result, artifactBytes, blob,
                   expOut, saved, domSteps, rendererBuffer>>
    /\ UNCHANGED <<loadVars, normVars, debVars, pageVars, docVars, overlapVars>>

\* the click handler of the download button, up to `await exporters.toBlob`;
\* the button is clicked once
ClickDownload ==
    /\ clicks = 0
    /\ clicks' = clicks + 1
    /\ \E eng \in PageEngines :
         LET r == rendering(eng, "pdf")
         IN  microtasks' = Append(microtasks,
                              DownloadJob(IF r.thrown = NoValue
                                          THEN BlobOf(slice(r.bytes, 2), mimeType("pdf"))
                                          ELSE r.thrown))
    /\ UNCHANGED <<previews, writes>>
    /\ UNCHANGED <<loadVars, normVars, expVars, debVars, pageVars, docVars, overlapVars>>

\* the click handler resumed: exporters.download(blob, 'render-output.pdf')
DownloadContinues ==
    /\ microtasks # <<>>
    /\ LET k == nextMicrotask(microtasks)
           job == microtasks[k]
           n == Len(objectURLs) + 1
       IN  /\ job.kind = "download"
           /\ microtasks' = Without(microtasks, k)
           /\ IF job.awaited.kind = "throw"
              THEN UNCHANGED <<objectURLs, saved, domSteps, revokeTimers>>
              ELSE /\ objectURLs' = Append(objectURLs,
                                           [blob |-> job.awaited, revoked |-> FALSE])
                   /\ saved' = Append(saved, [href |-> ObjectURL(n),
                                              download |-> "render-output.pdf"])
                   /\ domSteps' = domSteps \o downloadBlob(ObjectURL(n), "render-output.pdf")
                   /\ revokeTimers' = revokeTimers \cup {n}
    /\ UNCHANGED <<previews, writes, clicks>>
    /\ UNCHANGED <<expPc, expCall, env, engine, renderCalls, result, artifactBytes, blob,
                   expOut, innerHTML, rendererBuffer>>
    /\ UNCHANGED <<loadVars, normVars, debVars, pageVars, docVars, overlapVars>>

NextRender ==
    \/ Render
    \/ PreviewContinues
    \/ ClickDownload
    \/ DownloadContinues
    \/ RevokeObjectURL

SpecRender == Init /\ [][NextRender]_vars

\* ---------------------------------------------------------------------------
\* C26
\* ---------------------------------------------------------------------------

PdfPreviewsDone ==
    { i \in 1..Len(previews) :
        /\ previews[i].state = "fulfilled"
        /\ previews[i].awaited.outputFormat = "pdf" }

EmbeddedURLs == { writes[i].url : i \in 1..Len(writes) } \ {0}

\* C26: every pdf preview creates an object URL of its own, and none of the
\* URLs previews created is ever released or scheduled for release, whether
\* the embed that used it is still shown or has been replaced.
C26_EmbedURLsNeverReleased ==
    /\ Cardinality(EmbeddedURLs) = Cardinality(PdfPreviewsDone)
    /\ \A n \in EmbeddedURLs :
         /\ n \in 1..Len(objectURLs)
         /\ ~objectURLs[n].revoked
         /\ n \notin revokeTimers

\* two pdf previews done, the first one's embed replaced by the second's, a
\* download's URL released in between, and both embed URLs still live
C26_Witness ==
    /\ Cardinality(PdfPreviewsDone) = 2
    /\ Len(objectURLs) = 3
    /\ \E n \in 1..3 : objectURLs[n].revoked
    /\ innerHTML = embedMarkup(ObjectURL(writes[2].url))
    /\ writes[1].url # writes[2].url
    /\ ~objectURLs[writes[1].url].revoked


\* ---------------------------------------------------------------------------
\* C29
\* ---------------------------------------------------------------------------

BothCompleted ==
    /\ Len(previews) = 2
    /\ \A i \in 1..2 : previews[i].state \in {"fulfilled", "rejected"}

ShowsOutputOf(i) ==
    /\ Len(writes) > 0
    /\ writes[Len(writes)].call = i
    /\ innerHTML = writes[Len(writes)].content

\* C29 as stated: once two preview calls issued back to back have both
\* completed, the target shows the output of the later call and not that of
\* the earlier one.
C29_ShowsLaterCall == BothCompleted => ShowsOutputOf(2)

WritesInCallOrder ==
    \A i, j \in 1..Len(writes) : i < j => writes[i].call < writes[j].call

\* C29, amended: the writes to the target happen in call order; once both
\* calls have completed the target shows the output of the later call when
\* that call succeeded, and when the later call failed it shows what the
\* earlier call left there.
C29_WritesInCallOrder ==
    /\ WritesInCallOrder
    /\ BothCompleted =>
         /\ previews[2].state = "fulfilled" => ShowsOutputOf(2)
         /\ previews[2].state = "rejected" /\ previews[1].state = "fulfilled"
               => ShowsOutputOf(1)
         /\ previews[2].state = "rejected" /\ previews[1].state = "rejected"
               => innerHTML = ContentBeforeCall

\* two calls have completed, both wrote, with different content, and the
\* target shows the later call's
C29_Witness ==
    /\ BothCompleted
    /\ Len(writes) = 2
    /\ writes[1].content # writes[2].content
    /\ ShowsOutputOf(2)


\* ---------------------------------------------------------------------------
\* C28
\* ---------------------------------------------------------------------------

Reorderings(unz) ==
    { [i \in 1..Len(unz) |-> unz[f[i]]] :
        f \in { g \in [1..Len(unz) -> 1..Len(unz)] :
                  \A i, j \in 1..Len(unz) : i # j => g[i] # g[j] } }

\* what the unzip callback settles the promise with for the entries as
\* enumerated
SettlementOf(unz) ==
    LET quillObj == buildTree(unz)
    IN  IF HasKey(quillObj, <<>>, QUILL_TOML)
        THEN [outcome |-> "resolved", files |-> quillObj]
        ELSE [outcome |-> "rejected", files |-> <<>>]

Unzipped == pc = "done" /\ ~unzipErr

\* no file entry of the archive lies at a path under which another entry lies
NoFileUnderFile ==
    \A i, j \in 1..Len(unzipped) :
        i # j /\ ~EndsWith(unzipped[i].path, "/")
            => ~IsPrefix(unzipped[i].path \o <<"/">>, unzipped[j].path)

\* C28: the settlement of fromZip is the same for every order in which the
\* entries of the archive are enumerated: the same success or failure, and
\* on success equal trees.
C28_OrderOfEntriesIrrelevant ==
    Unzipped =>
        \A other \in Reorderings(unzipped) :
            SettlementOf(other) = SettlementOf(unzipped)

C28_HoldsWithoutFileUnderFile ==
    Unzipped /\ NoFileUnderFile =>
        \A other \in Reorderings(unzipped) :
            SettlementOf(other) = SettlementOf(unzipped)


-----------------------------------------------------------------------------
(* normalize.ts: deepMapToObject and normalizeParsedDocument *)

MaxFields == 2

\* JavaScript values of a parsed document. A Map is its entries in insertion
\* order; an object is its prototype and its own enumerable properties in
\* insertion order.
ObjectPrototype == [kind |-> "Object.prototype"]
DateValue == [kind |-> "Date"]
Entry(key, value) == [key |-> key, value |-> value]
MapOf(entries) == [kind |-> "Map", entries |-> entries]
ObjectOf(proto, props) == [kind |-> "Object", proto |-> proto, props |-> props]
ItemsOf(items) == [kind |-> "Array", items |-> items]
ObjectLiteral == ObjectOf(ObjectPrototype, <<>>)

IsObjectOrNull(v) == v.kind \in {"Map", "Object", "Array", "Date", "null"}

\* obj[key] = value on an object that inherits Object.prototype's __proto__
\* accessor: the key "__proto__" sets the prototype when the value is an
\* object or null and does nothing otherwise; any other key is an own property
setProperty(obj, key, value) ==
    IF key = "__proto__"
    THEN IF IsObjectOrNull(value) THEN [obj EXCEPT !.proto = value] ELSE obj
    ELSE IF \E i \in 1..Len(obj.props) : obj.props[i].key = key
    THEN [obj EXCEPT !.props = [i \in 1..Len(obj.props) |->
                                  IF obj.props[i].key = key THEN Entry(key, value)
                                  ELSE obj.props[i]]]
    ELSE [obj EXCEPT !.props = Append(obj.props, Entry(key, value))]

\* value.constructor: an own property named constructor, or the one found
\* along the prototype chain
RECURSIVE constructorOf(_)
constructorOf(value) ==
    IF value.kind = "Object"
    THEN IF \E i \in 1..Len(value.props) : value.props[i].key = "constructor"
         THEN "own property"
         ELSE constructorOf(value.proto)
    ELSE IF value.kind = "Object.prototype" THEN "Object"
    ELSE IF value.kind = "null" THEN "undefined"
    ELSE value.kind

\* value !== null && typeof value === 'object' && value.constructor === Object
isPlainObject(value) ==
    /\ value.kind \in {"Object", "Date"}
    /\ constructorOf(value) = "Object"

RECURSIVE deepMapToObject(_)
RECURSIVE assignAll(_, _)
\* the two for-of loops: obj[key] = deepMapToObject(val) for every entry
assignAll(obj, entries) ==
    IF Len(entries) = 0 THEN obj
    ELSE assignAll(setProperty(obj, Head(entries).key,
                               deepMapToObject(Head(entries).value)),
                   Tail(entries))

deepMapToObject(value) ==
    IF value.kind = "Map" THEN assignAll(ObjectLiteral, value.entries)
    ELSE IF value.kind = "Array"
    THEN ItemsOf([i \in 1..Len(value.items) |-> deepMapToObject(value.items[i])])
    ELSE IF isPlainObject(value) THEN assignAll(ObjectLiteral, value.props)
    ELSE value

ParsedDocument(fields, quillTag) ==
    [kind |-> "document", fields |-> fields, quillTag |-> quillTag]

normalizeParsedDocument(parsed) ==
    ParsedDocument(deepMapToObject(parsed.fields), parsed.quillTag)

(* Inputs *)
FieldKeys == {"examinee", "constructor", "__proto__"}
OwnKeys == {"examinee", "constructor"}
Primitives == {NumberValue, StringOf(<<81>>), Null, DateValue}

EntriesOver(keys, values, n) ==
    UNION { { e \in [1..k -> [key : keys, value : values]] :
                \A i, j \in 1..k : i # j => e[i].key # e[j].key } : k \in 0..n }

ContainersOver(values, n) ==
    { MapOf(e) : e \in EntriesOver(FieldKeys, values, n) }
    \cup { ObjectOf(ObjectPrototype, e) : e \in EntriesOver(OwnKeys, values, n) }
    \cup { ItemsOf(e) : e \in SeqsUpTo(values, n) }

Shallow == Primitives \cup ContainersOver(Primitives, MaxFields)
Nested == ContainersOver(Shallow, 1)

FieldsUniverse == { v \in Shallow \cup Nested : v.kind \in {"Map", "Object"} }
QuillTags == {Undefined, StringOf(<<81>>)}

NormalizeParsedDocument ==
    /\ docIn.kind = "none"
    /\ \E fields \in FieldsUniverse, quillTag \in QuillTags :
         /\ docIn' = ParsedDocument(fields, quillTag)
         /\ docOut' = normalizeParsedDocument(docIn')
    /\ UNCHANGED docOut2
    /\ UNCHANGED <<loadVars, normVars, expVars, debVars, pageVars, renderVars, overlapVars>>

NormalizeParsedDocumentAgain ==
    /\ docOut.kind = "document"
    /\ docOut2.kind = "none"
    /\ docOut2' = normalizeParsedDocument(docOut)
    /\ UNCHANGED <<docIn, docOut>>
    /\ UNCHANGED <<loadVars, normVars, expVars, debVars, pageVars, renderVars, overlapVars>>

NextDoc == NormalizeParsedDocument \/ NormalizeParsedDocumentAgain

SpecDoc == Init /\ [][NextDoc]_vars

\* ---------------------------------------------------------------------------
\* C30
\* ---------------------------------------------------------------------------

RECURSIVE HasMap(_)
\* a Map is reachable from v through Maps, arrays and objects
HasMap(v) ==
    \/ v.kind = "Map"
    \/ v.kind = "Array" /\ \E i \in 1..Len(v.items) : HasMap(v.items[i])
    \/ v.kind = "Object" /\ \E i \in 1..Len(v.props) : HasMap(v.props[i].value)

RECURSIVE Converted(_)
\* v with every Map replaced by a plain object of the same keys, all else kept
Converted(v) ==
    IF v.kind = "Map"
    THEN ObjectOf(ObjectPrototype,
                  [i \in 1..Len(v.entries) |->
                     Entry(v.entries[i].key, Converted(v.entries[i].value))])
    ELSE IF v.kind = "Array"
    THEN ItemsOf([i \in 1..Len(v.items) |-> Converted(v.items[i])])
    ELSE IF v.kind = "Object"
    THEN ObjectOf(v.proto,
                  [i \in 1..Len(v.props) |->
                     Entry(v.props[i].key, Converted(v.props[i].value))])
    ELSE v

DocNormalized == docOut.kind = "document"

\* C30: the normalized document has no Map left at any depth; its fields are
\* those of the argument with every Map replaced by a plain object of the
\* same keys and converted values, arrays kept as arrays in order, primitive
\* values and quillTag unchanged; normalizing twice gives what normalizing
\* once gives.
C30_NoMapLeftAndIdempotent ==
    /\ DocNormalized =>
         /\ ~HasMap(docOut.fields)
         /\ docOut.fields = Converted(docIn.fields)
         /\ docOut.quillTag = docIn.quillTag
    /\ docOut2.kind = "document" => docOut2 = docOut

UsesKey(v, key) ==
    \/ v.kind = "Map" /\ \E i \in 1..Len(v.entries) : v.entries[i].key = key
    \/ v.kind = "Object" /\ \E i \in 1..Len(v.props) : v.props[i].key = key

RECURSIVE UsesKeyAnywhere(_, _)
UsesKeyAnywhere(v, key) ==
    \/ UsesKey(v, key)
    \/ v.kind = "Map" /\ \E i \in 1..Len(v.entries) : UsesKeyAnywhere(v.entries[i].value, key)
    \/ v.kind = "Array" /\ \E i \in 1..Len(v.items) : UsesKeyAnywhere(v.items[i], key)
    \/ v.kind = "Object" /\ \E i \in 1..Len(v.props) : UsesKeyAnywhere(v.props[i].value, key)

C30_HoldsForOrdinaryKeys ==
    DocNormalized /\ ~UsesKeyAnywhere(docIn.fields, "__proto__")
                  /\ ~UsesKeyAnywhere(docIn.fields, "constructor")
        => C30_NoMapLeftAndIdempotent


-----------------------------------------------------------------------------
(* Two fromZip calls and two exportToBlob calls in flight together *)

OverlapPaths == { QUILL_TOML, <<"LICENSE">>, <<"LICENSE", "/", "logo", ".", "png">> }

OverlapArchives ==
    { s \in SeqsWithoutRepeats(OverlapPaths) : Len(s) <= 2 }

EntriesOf(s) == [i \in 1..Len(s) |-> [path |-> s[i], data |-> <<65, 195, 169>>]]

OverlapEngines ==
    {[parsed |-> Parsed("tagged"), info |-> InfoThrows, rendered |-> r] :
        r \in {RenderThrows} \cup { RenderedOf(ArrayOf(<<WrapperOf(b)>>), TRUE) :
                                      b \in PageBytes }}

\* every call building into one object kept outside the function
quillObjShared(call) == 0

\* `const quillObj = {}`: the object literal evaluated by call number `call`
quillObj(call) == call

\* `new Blob([bytes.slice()])`: the buffer the Blob of call number `call` keeps
blobBuffer(call) == call

\* fromZip(zipFile) of one of the two callers, up to its first suspension point
LoadCall(i) ==
    /\ loads[i].pc = "idle"
    /\ \E k \in {"ArrayBuffer", "Blob"} :
         loads' = [loads EXCEPT ![i].pc = IF k = "ArrayBuffer" THEN "unzip"
                                          ELSE "arrayBuffer",
                                ![i].outcome = "pending",
                                ![i].quillObj = quillObj(i)]
    /\ UNCHANGED <<trees, exports, buffers>>
    /\ UNCHANGED <<loadVars, normVars, expVars, debVars, pageVars, renderVars, docVars>>

LoadAwaitArrayBuffer(i) ==
    /\ loads[i].pc = "arrayBuffer"
    /\ loads' = [loads EXCEPT ![i].pc = "unzip"]
    /\ UNCHANGED <<trees, exports, buffers>>
    /\ UNCHANGED <<loadVars, normVars, expVars, debVars, pageVars, renderVars, docVars>>

LoadUnzipError(i) ==
    /\ loads[i].pc = "unzip"
    /\ loads' = [loads EXCEPT ![i].pc = "done", ![i].outcome = "unzip failed"]
    /\ UNCHANGED <<trees, exports, buffers>>
    /\ UNCHANGED <<loadVars, normVars, expVars, debVars, pageVars, renderVars, docVars>>

LoadUnzipCallback(i) ==
    /\ loads[i].pc = "unzip"
    /\ \E s \in OverlapArchives :
         LET unz == EntriesOf(s)
             obj == loads[i].quillObj
             built == processEntries(trees[obj], unz, pathPrefix(unz))
         IN  /\ trees' = [trees EXCEPT ![obj] = built]
             /\ loads' = [loads EXCEPT
                            ![i].pc = "done",
                            ![i].unzipped = unz,
                            ![i].outcome = IF HasKey(built, <<>>, QUILL_TOML)
                                           THEN "resolved" ELSE "rejected"]
    /\ UNCHANGED <<exports, buffers>>
    /\ UNCHANGED <<loadVars, normVars, expVars, debVars, pageVars, renderVars, docVars>>

\* exportToBlob of one of the two callers: it has no suspension point; the
\* engine answers with a view of its own buffer, which the next render reuses
ExportCall(i) ==
    /\ exports[i].pc = "idle"
    /\ \E f \in {NoFormat, "svg"}, eng \in OverlapEngines :
         LET format == formatOrPdf(f)
             r == rendering(eng, format)
         IN  IF r.thrown = NoValue
             THEN /\ buffers' = [buffers EXCEPT ![0] = r.bytes.data,
                                                ![blobBuffer(i)] = slice(r.bytes, 2).data]
                  /\ exports' = [exports EXCEPT
                                   ![i] = [pc |-> "returned", engine |-> eng,
                                           format |-> f,
                                           out |-> [kind |-> "Blob",
                                                    type |-> mimeType(format),
                                                    buffer |-> blobBuffer(i)]]]
             ELSE /\ exports' = [exports EXCEPT
                                   ![i] = [pc |-> "returned", engine |-> eng,
                                           format |-> f, out |-> r.thrown]]
                  /\ UNCHANGED buffers
    /\ UNCHANGED <<loads, trees>>
    /\ UNCHANGED <<loadVars, normVars, expVars, debVars, pageVars, renderVars, docVars>>

\* the caller's `await exportToBlob(...)` resumes
ExportSettles(i) ==
    /\ exports[i].pc = "returned"
    /\ exports' = [exports EXCEPT ![i].pc = "settled"]
    /\ UNCHANGED <<loads, trees, buffers>>
    /\ UNCHANGED <<loadVars, normVars, expVars, debVars, pageVars, renderVars, docVars>>

NextOverlap ==
    \/ \E i \in 1..2 : LoadCall(i)
    \/ \E i \in 1..2 : LoadAwaitArrayBuffer(i)
    \/ \E i \in 1..2 : LoadUnzipError(i)
    \/ \E i \in 1..2 : LoadUnzipCallback(i)
    \/ \E i \in 1..2 : ExportCall(i)
    \/ \E i \in 1..2 : ExportSettles(i)

SpecOverlap == Init /\ [][NextOverlap]_vars

\* ---------------------------------------------------------------------------
\* C27
\* ---------------------------------------------------------------------------

LoadDone(i) == loads[i].pc = "done" /\ loads[i].outcome \in {"resolved", "rejected"}

\* what the same fromZip call settles with when no other call runs
LoadAlone(i) == SettlementOf(loads[i].unzipped)

ExportReturned(i) == exports[i].pc \in {"returned", "settled"}

\* what the same exportToBlob call returns when no other call runs
ExportAlone(i) == rendering(exports[i].engine, formatOrPdf(exports[i].format))

====
